---- MODULE Spec2Model ----
(***************************************************************************)
(* State-machine model of the page processing pipeline of the OCR          *)
(* workbench: the file queue (App.tsx), processFile / processDocument,     *)
(* the OCR caller and the table restoration caller (services).             *)
(*                                                                         *)
(* One action is one task of the JavaScript event loop: a user event       *)
(* handler, or the continuation of an awaited network call / timer, run    *)
(* to its next suspension point, followed by the queue effect that React   *)
(* runs after every change of `files`.                                     *)
(***************************************************************************)
EXTENDS Integers, Sequences, FiniteSets, TLC

VARIABLES
  files,               \* App.tsx:68   the document list (array of DocFile)
  abortControllerRef,  \* App.tsx:99   0 = null, else the run whose controller it holds
  pendingFileId,       \* App.tsx:103  -1 = null
  showPageSelector,    \* App.tsx:102
  apiKey,              \* localStorage SILICONFLOW_API_KEY present?
  runs,                \* the invocations of processFile still on the event loop, by run number
  nextId,              \* next fresh document id
  nextRun,             \* next fresh run number
  retried,             \* number of full retries performed so far
  queueOrder,          \* history: ids of the queued files, in the order they became queued
  activeFileId,        \* App.tsx:89   -1 = '' (no file)
  editorPage,          \* App.tsx:111  the page shown in the editor, from 1
  retrying,            \* the calls of handleConfirmRetry awaiting processSinglePage
  userOps,             \* history: number of view toggles, typed changes and page retries
  objectUrls,          \* the blob URLs made by URL.createObjectURL and not revoked
  evalDatasetRows,     \* App.tsx:96   the rows collected for the evaluation set
  download             \* the text of the file last handed to the browser for download

\* the state of the evaluation-set export
exportVars == <<evalDatasetRows, download>>

vars == <<files, abortControllerRef, pendingFileId, showPageSelector, apiKey,
          runs, nextId, nextRun, retried, queueOrder,
          activeFileId, editorPage, retrying, userOps, objectUrls, exportVars>>

-----------------------------------------------------------------------------
(* Bounds of the model *)

\* pages of the PDF uploaded in Spec
MaxPages == 2
\* documents uploaded in SchedSpec
SchedDocs == 3
\* full retries in SchedSpec
SchedRetries == 1
\* digits after the decimal point of a number in a page-range expression
FracDigits == 2
\* characters of a page-range expression enumerated in ParseSpec
MaxExprLen == 3
\* pages of the PDF uploaded in ParseSpec
ParsePages == 3
\* pages of the PDF uploaded in EditSpec
EditPages == 2
\* view toggles, typed changes and page retries in EditSpec
MaxOps == 2
\* documents uploaded in FatalSpec
FatalDocs == 2
\* documents uploaded in NoiseSpec
NoiseDocs == 2
\* characters of the ocr_text of a row of the evaluation set in CsvSpec
MaxValueLen == 2
\* rows of the evaluation set in CsvSpec
MaxRows == 2

(* Program constants *)

MAX_CONCURRENT_JOBS == 1
OCR_RETRIES == 5
RESTORE_RETRIES == 3

-----------------------------------------------------------------------------
(* Generic helpers *)

Put(f, k, v) == [x \in (DOMAIN f) \cup {k} |-> IF x = k THEN v ELSE f[x]]

Range(s) == {s[k] : k \in DOMAIN s}

RECURSIVE SortedSeq(_)
SortedSeq(S) ==
  IF S = {} THEN <<>>
  ELSE LET m == CHOOSE x \in S : \A y \in S : x <= y
       IN <<m>> \o SortedSeq(S \ {m})

RECURSIVE ConcatAll(_)
ConcatAll(ss) ==
  IF ss = <<>> THEN <<>> ELSE Head(ss) \o ConcatAll(Tail(ss))

None == {}
Some(x) == {x}

-----------------------------------------------------------------------------
(* Page-range expressions are sequences of one-character strings.          *)

DigitValue(c) ==
  CASE c = "0" -> 0 [] c = "1" -> 1 [] c = "2" -> 2 [] c = "3" -> 3
    [] c = "4" -> 4 [] c = "5" -> 5 [] c = "6" -> 6 [] c = "7" -> 7
    [] c = "8" -> 8 [] c = "9" -> 9 [] OTHER -> -1

IsDigit(c) == DigitValue(c) >= 0

\* A JavaScript number is modelled in units of 1/Scale (1.5 is 150 for
\* Scale = 100); digits after the first FracDigits digits of a fraction do
\* not occur in the expressions of the model.  NaN and Infinity are the two
\* values below zero, which no expression denotes ("-" never reaches Number).
Scale == 10 ^ FracDigits

NaN == -1

Infinity == -2

InfinityLiteral == <<"I", "n", "f", "i", "n", "i", "t", "y">>

RECURSIVE trim(_)
trim(s) ==
  IF s = <<>> THEN s
  ELSE IF Head(s) = " " THEN trim(Tail(s))
  ELSE IF s[Len(s)] = " " THEN trim(SubSeq(s, 1, Len(s) - 1))
  ELSE s

RECURSIVE DecimalValue(_)
DecimalValue(s) ==
  IF s = <<>> THEN 0
  ELSE 10 * DecimalValue(SubSeq(s, 1, Len(s) - 1)) + DigitValue(s[Len(s)])

\* the value of the digits after the decimal point, in units of 1/Scale
FractionValue(s) ==
  LET d == SubSeq(s, 1, IF Len(s) < FracDigits THEN Len(s) ELSE FracDigits)
  IN DecimalValue(d) * 10 ^ (FracDigits - Len(d))

\* JavaScript Number() of a string: blank is 0, "Infinity" is Infinity,
\* digits with at most one decimal point are their value, else NaN.
Number(s) ==
  LET t == trim(s)
      dots == {k \in 1..Len(t) : t[k] = "."}
  IN IF t = <<>> THEN 0
     ELSE IF t = InfinityLiteral THEN Infinity
     ELSE IF \A k \in 1..Len(t) : IsDigit(t[k]) THEN DecimalValue(t) * Scale
     ELSE IF /\ Cardinality(dots) = 1 /\ Len(t) >= 2
             /\ \A k \in (1..Len(t)) \ dots : IsDigit(t[k])
     THEN LET k == CHOOSE k \in dots : TRUE
          IN DecimalValue(SubSeq(t, 1, k - 1)) * Scale
               + FractionValue(SubSeq(t, k + 1, Len(t)))
     ELSE NaN

RECURSIVE split(_, _)
split(s, seps) ==
  IF \A k \in 1..Len(s) : s[k] \notin seps THEN <<s>>
  ELSE LET k == CHOOSE k \in 1..Len(s) :
                  s[k] \in seps /\ \A j \in 1..(k - 1) : s[j] \notin seps
       IN <<SubSeq(s, 1, k - 1)>> \o split(SubSeq(s, k + 1, Len(s)), seps)

\* the numbers 1..totalPages
AllPages(totalPages) == {i * Scale : i \in 1..totalPages}

\* the destructured bounds of a range token: [start, end] = split('-').map(Number);
\* a missing second element is undefined, whose test !isNaN fails
RangeBounds(trimmed) ==
  LET nums == split(trimmed, {"-"})
  IN [start |-> Number(nums[1]),
      end |-> IF Len(nums) >= 2 THEN Number(nums[2]) ELSE NaN]

\* the pages one part of the expression adds (lines 362-378); the loop
\* for (i = start; i <= end; i++) adds start, start + 1, ... while they are
\* at most end, those of them within 1..totalPages
PartPages(part, totalPages) ==
  LET trimmed == trim(part)
  IN IF trimmed = <<>> THEN {}
     ELSE IF "-" \in Range(trimmed)
     THEN LET bounds == RangeBounds(trimmed)
              hi == IF bounds.end = Infinity \/ bounds.end > totalPages * Scale
                    THEN totalPages * Scale ELSE bounds.end
          IN IF bounds.start # NaN /\ bounds.end # NaN /\ bounds.start # Infinity
             THEN {i \in bounds.start..hi :
                     (i - bounds.start) % Scale = 0 /\ i >= 1 * Scale}
             ELSE {}
     ELSE LET page == Number(trimmed)
          IN IF page \notin {NaN, Infinity} /\ page >= 1 * Scale /\ page <= totalPages * Scale
             THEN {page} ELSE {}

\* the loop of a range token never ends: i <= Infinity holds for every i
PartDiverges(part) ==
  LET trimmed == trim(part)
  IN /\ "-" \in Range(trimmed)
     /\ RangeBounds(trimmed).start # NaN
     /\ RangeBounds(trimmed).end = Infinity

parsePageRange(rangeStr, totalPages) ==
  IF rangeStr = <<>> \/ rangeStr = <<"a", "l", "l">>
  THEN SortedSeq(AllPages(totalPages))
  ELSE LET parts == split(rangeStr, {",", ";"})
           pages == UNION {PartPages(parts[k], totalPages) : k \in DOMAIN parts}
       IN IF pages # {} THEN SortedSeq(pages) ELSE SortedSeq(AllPages(totalPages))

\* parsePageRange does not return: one of its range loops never ends
parsePageRangeDiverges(rangeStr) ==
  /\ rangeStr # <<>> /\ rangeStr # <<"a", "l", "l">>
  /\ \E part \in Range(split(rangeStr, {",", ";"})) : PartDiverges(part)

-----------------------------------------------------------------------------
(* OCR text is a sequence of tokens: "<table>", "</table>", "|---|" stand   *)
(* for the markup the code looks for, any other token is plain text.       *)

TableOpen == "<table>"
TableClose == "</table>"
MarkdownRule == "|---|"

\* /<table/i.test(text)
hasTableTag(text) == TableOpen \in Range(text)

\* variant: the pattern has no capturing group, the matched spans are dropped
RECURSIVE splitTables_NoCapture(_)
splitTables_NoCapture(text) ==
  LET opens == {k \in 1..Len(text) : text[k] = TableOpen}
  IN IF opens = {} THEN <<text>>
     ELSE LET o == CHOOSE k \in opens : \A j \in opens : k <= j
              closes == {k \in (o + 1)..Len(text) : text[k] = TableClose}
          IN IF closes = {} THEN <<text>>
             ELSE LET c == CHOOSE k \in closes : \A j \in closes : k <= j
                  IN <<SubSeq(text, 1, o - 1)>>
                       \o splitTables_NoCapture(SubSeq(text, c + 1, Len(text)))

\* text.split(/(<table[^>]*>[\s\S]*?<\/table>)/i)
RECURSIVE splitTables(_)
splitTables(text) ==
  LET opens == {k \in 1..Len(text) : text[k] = TableOpen}
  IN IF opens = {} THEN <<text>>
     ELSE LET o == CHOOSE k \in opens : \A j \in opens : k <= j
              closes == {k \in (o + 1)..Len(text) : text[k] = TableClose}
          IN IF closes = {} THEN <<text>>
             ELSE LET c == CHOOSE k \in closes : \A j \in closes : k <= j
                  IN <<SubSeq(text, 1, o - 1), SubSeq(text, o, c)>>
                       \o splitTables(SubSeq(text, c + 1, Len(text)))

\* part.match(/^<table/i)
startsWithTable(part) == part # <<>> /\ Head(part) = TableOpen

\* outputHasHtmlTable || outputHasMarkdownTable
outputHasTable(finalContent) ==
  TableOpen \in Range(finalContent) \/ MarkdownRule \in Range(finalContent)

\* App.tsx:44; "\n\n" is the blank line written around it by reconstructContent
SPLIT_MARKER == "<--- Page Split --->"
BlankLine == "\n\n"

\* chunks.join(sep)
RECURSIVE Join(_, _)
Join(chunks, sep) ==
  IF chunks = <<>> THEN <<>>
  ELSE IF Len(chunks) = 1 THEN chunks[1]
  ELSE chunks[1] \o sep \o Join(Tail(chunks), sep)

\* `> ⚠️ **Page ${i + 1} Error**: ${pData.errorMessage}` (App.tsx:258)
ErrorNotice(i, errorMessage) == <<"> Page", ToString(i + 1), "Error:", errorMessage>>

\* pData.restored || pData.rawOCR || "" (App.tsx:264): null and '' are falsy
restoredOrRaw(pData) ==
  IF pData.restored # None /\ pData.restored # Some(<<>>)
  THEN CHOOSE text \in pData.restored : TRUE
  ELSE pData.rawOCR

\* variant: the restored view shows the raw text of every page
reconstructContent_RawOnly(file) ==
  IF DOMAIN file.pagesData = {} THEN file.content
  ELSE LET numPages == Cardinality(DOMAIN file.pagesData)
           chunk(i) ==
             IF i \notin DOMAIN file.pagesData THEN <<>>
             ELSE IF file.pagesData[i].status = "error"
             THEN ErrorNotice(i, file.pagesData[i].errorMessage)
             ELSE file.pagesData[i].rawOCR
       IN Join([n \in 1..numPages |-> chunk(n - 1)], <<BlankLine, SPLIT_MARKER, BlankLine>>)

\* reconstructContent (App.tsx:244-271); a missing viewMode is 'restored'
reconstructContent(file) ==
  IF DOMAIN file.pagesData = {} THEN file.content
  ELSE LET mode == IF file.viewMode = "undefined" THEN "restored" ELSE file.viewMode
           numPages == Cardinality(DOMAIN file.pagesData)
           chunk(i) ==
             IF i \notin DOMAIN file.pagesData THEN <<>>
             ELSE IF file.pagesData[i].status = "error"
             THEN ErrorNotice(i, file.pagesData[i].errorMessage)
             ELSE IF mode = "restored" THEN restoredOrRaw(file.pagesData[i])
             ELSE file.pagesData[i].rawOCR
       IN Join([n \in 1..numPages |-> chunk(n - 1)], <<BlankLine, SPLIT_MARKER, BlankLine>>)

\* activeFile.content.split(SPLIT_MARKER) (App.tsx:477-480)
pageContents(file) ==
  IF file.content = <<>> THEN <<>> ELSE split(file.content, {SPLIT_MARKER})

-----------------------------------------------------------------------------
(* Records *)

undefinedPage ==
  [rawOCR |-> <<>>, restored |-> None, status |-> "undefined",
   verificationResult |-> None, errorMessage |-> "undefined"]

initialPage ==
  [rawOCR |-> <<>>, restored |-> None, status |-> "pending",
   verificationResult |-> None, errorMessage |-> "undefined"]

\* the sample text holds one page split marker (constants, line 5)
SAMPLE_DOC_CONTENT == <<"sample", SPLIT_MARKER, "sample">>

SampleDoc ==
  [id |-> 0, type |-> "none", numPages |-> 0, status |-> "completed",
   statusMessage |-> "undefined", pageRange |-> <<"a", "l", "l">>,
   pageMap |-> <<1 * Scale>>, viewMode |-> "restored",
   content |-> SAMPLE_DOC_CONTENT, pdfUrl |-> None,
   pagesData |-> (0 :> [rawOCR |-> SAMPLE_DOC_CONTENT, restored |-> Some(SAMPLE_DOC_CONTENT),
                        status |-> "complete",
                        verificationResult |-> Some([hasTable |-> TRUE, reason |-> "Sample"]),
                        errorMessage |-> "undefined"])]

ErrorMessage(kind) ==
  CASE kind = "401" -> "Invalid API Key"
    [] kind = "429" -> "API Error: 429 Rate Limit Exceeded"
    [] OTHER -> "API Error: 500"

\* prev.map(f => f.id === id ? { ...f, ...update } : f)
MapFile(fs, id, update) ==
  [k \in DOMAIN fs |->
     IF fs[k].id = id
     THEN [x \in DOMAIN fs[k] |-> IF x \in DOMAIN update THEN update[x] ELSE fs[k][x]]
     ELSE fs[k]]

\* variant: the update is merged into every page instead of the page at pageIndex
onPageUpdate_EveryPage(fs, id, pageIndex, pageUpdate) ==
  [j \in DOMAIN fs |->
     IF fs[j].id # id THEN fs[j]
     ELSE LET tempFile ==
                [fs[j] EXCEPT !.pagesData =
                   [q \in DOMAIN @ \cup {pageIndex} |->
                      LET old == IF q \in DOMAIN @ THEN @[q] ELSE undefinedPage
                      IN [k \in DOMAIN old |->
                            IF k \in DOMAIN pageUpdate THEN pageUpdate[k] ELSE old[k]]]]
          IN [tempFile EXCEPT !.content = reconstructContent(tempFile)]]

\* App.tsx:317-341, the page-update callback handed to processDocument
onPageUpdate(fs, id, pageIndex, pageUpdate) ==
  [j \in DOMAIN fs |->
     IF fs[j].id # id THEN fs[j]
     ELSE LET old == IF pageIndex \in DOMAIN fs[j].pagesData
                     THEN fs[j].pagesData[pageIndex] ELSE undefinedPage
              new == [k \in DOMAIN old |->
                        IF k \in DOMAIN pageUpdate THEN pageUpdate[k] ELSE old[k]]
              tempFile == [fs[j] EXCEPT !.pagesData = Put(@, pageIndex, new)]
          IN [tempFile EXCEPT !.content = reconstructContent(tempFile)]]

-----------------------------------------------------------------------------
(* The asynchronous part of the program.  A run is one invocation of       *)
(* processFile; S is the part of the state a continuation may change:      *)
(* [files, runs, ref (abortControllerRef), nextRun].                       *)

NewRun(f) ==
  [doc |-> f.id, type |-> f.type, numPages |-> f.numPages, pageRange |-> f.pageRange,
   aborted |-> FALSE, pc |-> "pf_load", i |-> 0, pageMap |-> <<>>,
   attempt |-> 0, lastError |-> "none", ocrResult |-> "none",
   requests |-> 0, failures |-> <<>>, waits |-> <<>>, thrown |-> "none",
   tasks |-> <<>>, log |-> <<>>]

NewTask(rawContent, inline) ==
  [pc |-> IF inline THEN "call" ELSE "delay",
   inline |-> inline, rawContent |-> rawContent, segs |-> <<>>,
   hasAnyRealTable |-> FALSE, hasAnyCleaned |-> FALSE]

\* every promise in restorationPromises is settled
TasksSettled(R) == \A p \in DOMAIN R.tasks : R.tasks[p].pc = "done"

SegsDrained(t) == \A k \in DOMAIN t.segs : t.segs[k].pc \in {"plain", "done", "thrown"}

SegsResolved(t) == \A k \in DOMAIN t.segs : t.segs[k].pc \in {"plain", "done"}

\* nothing of the run is left on the event loop
Finished(R) ==
  R.pc = "done" /\ \A p \in DOMAIN R.tasks : R.tasks[p].pc = "done" /\ SegsDrained(R.tasks[p])

\* processFile, catch and finally (App.tsx:352-362)
PfCatch(S, r, isAbort) ==
  [S EXCEPT
     !.files = [k \in DOMAIN S.files |->
                  IF S.files[k].id # S.runs[r].doc THEN S.files[k]
                  ELSE [S.files[k] EXCEPT
                          !.content = IF isAbort THEN @ ELSE <<"error:", "err.message">>,
                          !.status = "error",
                          !.statusMessage = IF isAbort THEN "stopped" ELSE "failed"]],
     !.runs[r].pc = "done",
     !.ref = 0]

\* processFile after processDocument returned (App.tsx:347-351, 360-362)
PfComplete(S, r) ==
  [S EXCEPT
     !.files = MapFile(@, S.runs[r].doc,
                 [status |-> "completed", statusMessage |-> "done"]),
     !.runs[r].pc = "done",
     !.ref = 0]

\* one call of onPageUpdate by run r, recorded in the publication log of the run
Publish(S, r, p, pageUpdate) ==
  [S EXCEPT
     !.files = onPageUpdate(@, S.runs[r].doc, p, pageUpdate),
     !.runs[r].log =
        Put(@, p, Append(IF p \in DOMAIN @ THEN @[p] ELSE <<>>,
                         [status |-> pageUpdate.status,
                          rawOCR |-> IF "rawOCR" \in DOMAIN pageUpdate
                                     THEN Some(pageUpdate.rawOCR) ELSE None]))]

\* processDocument, PDF branch: the head of the for loop (lines 430-442) for
\* the current i, up to the await of renderPageToImage; after the last page
\* the await of Promise.all (line 521).
LoopTop(S, r) ==
  LET R == S.runs[r]
  IN IF R.i >= Len(R.pageMap)
     THEN IF TasksSettled(R) THEN PfComplete(S, r) ELSE [S EXCEPT !.runs[r].pc = "join"]
     ELSE IF R.aborted THEN PfCatch(S, r, TRUE)
     ELSE [Publish(S, r, R.i, [status |-> "pending"]) EXCEPT !.runs[r].pc = "render"]

\* an error leaves callOcrModel (or renderPageToImage): the page-level catch of
\* the PDF branch (lines 507-515), the outer catch of the image branch (564-569)
OcrThrow(S0, r, err) ==
  LET R == S0.runs[r]
      S == [S0 EXCEPT !.runs[r].ocrResult = IF err = "aborted" THEN "aborted" ELSE "error",
                      !.runs[r].thrown = err]
  IN IF R.type = "pdf"
     THEN IF R.aborted \/ err = "aborted"
          THEN PfCatch(S, r, TRUE)
          ELSE LoopTop([Publish(S, r, R.i, [status |-> "error",
                                            errorMessage |-> ErrorMessage(err)])
                          EXCEPT !.runs[r].i = @ + 1], r)
     ELSE PfCatch(S, r, err = "aborted")

\* callOcrModel: the head of the retry loop for attempt k (lines 148-174); the
\* history of the call (requests, failures, waits) starts anew with attempt 0
OcrAttempt(S0, r, k) ==
  LET S == IF k = 0
           THEN [S0 EXCEPT !.runs[r].requests = 0, !.runs[r].failures = <<>>,
                           !.runs[r].waits = <<>>, !.runs[r].thrown = "none",
                           !.runs[r].lastError = "none"]
           ELSE S0
  IN IF S.runs[r].aborted
     THEN OcrThrow(S, r, "aborted")
     ELSE [S EXCEPT !.runs[r].pc = "ocr_fetch", !.runs[r].attempt = k,
                    !.runs[r].requests = @ + 1,
                    !.runs[r].ocrResult = "pending"]

\* the join of processDocument, reached when a restoration task settles
JoinCheck(S, r) ==
  IF S.runs[r].pc = "join" /\ TasksSettled(S.runs[r]) THEN PfComplete(S, r) ELSE S

CompleteUpdate(result) ==
  [restored |-> Some(result.content), status |-> "complete",
   verificationResult |->
     Some([hasTable |-> result.hasRealTable,
           reason |-> IF result.cleaned THEN "structure restored" ELSE "table kept"])]

\* callLayoutRestorationModel returned `result` to its caller: the restoration
\* task of page p (lines 484-494) or the image branch (lines 549-558)
RestorationReturn(S, r, p, result) ==
  LET R == S.runs[r]
      S1 == [S EXCEPT !.runs[r].tasks[p].pc = "done"]
  IN IF R.tasks[p].inline
     THEN PfComplete(Publish(S1, r, p, CompleteUpdate(result)), r)
     ELSE IF R.aborted THEN JoinCheck(S1, r)
     ELSE JoinCheck(Publish(S1, r, p, CompleteUpdate(result)), r)

\* callLayoutRestorationModel threw "Process aborted by user" to its caller
\* (lines 495-502; image branch: lines 564-567)
RestorationThrow(S, r, p) ==
  LET R == S.runs[r]
      S1 == [S EXCEPT !.runs[r].tasks[p].pc = "done"]
  IN IF R.tasks[p].inline
     THEN PfCatch(S1, r, TRUE)
     ELSE IF R.aborted THEN JoinCheck(S1, r)
     ELSE JoinCheck(Publish(S1, r, p, [status |-> "error",
                                       errorMessage |-> "restore failed"]), r)

\* callLayoutRestorationModel up to its first suspension (lines 218-278)
RestorationStart(S, r, p) ==
  LET R == S.runs[r]
      t == R.tasks[p]
      parts == splitTables(t.rawContent)
      segsOf(aborted) ==
        [k \in 1..Len(parts) |->
           IF startsWithTable(parts[k])
           THEN [pc |-> IF aborted THEN "thrown" ELSE "fetch", attempt |-> 0,
                 out |-> parts[k], lastError |-> "none",
                 requests |-> IF aborted THEN 0 ELSE 1, failed |-> 0]
           ELSE [pc |-> "plain", attempt |-> 0, out |-> parts[k], lastError |-> "none",
                 requests |-> 0, failed |-> 0]]
  IN IF Len(parts) <= 1
     THEN RestorationReturn(S, r, p, [content |-> t.rawContent, hasRealTable |-> FALSE,
                                      cleaned |-> FALSE])
     ELSE IF R.aborted /\ \E k \in 1..Len(parts) : startsWithTable(parts[k])
     THEN RestorationThrow([S EXCEPT !.runs[r].tasks[p].segs = segsOf(TRUE)], r, p)
     ELSE [S EXCEPT !.runs[r].tasks[p].pc = "segs", !.runs[r].tasks[p].segs = segsOf(FALSE)]

\* Promise.all over the parts resolved (lines 340-349)
SegsSettle(S, r, p) ==
  LET t == S.runs[r].tasks[p]
  IN IF t.pc = "segs" /\ SegsResolved(t)
     THEN RestorationReturn(S, r, p,
            [content |-> ConcatAll([k \in DOMAIN t.segs |-> t.segs[k].out]),
             hasRealTable |-> t.hasAnyRealTable, cleaned |-> t.hasAnyCleaned])
     ELSE S

\* a part's async function threw: Promise.all rejects on the first rejection
SegThrow(S, r, p, k) ==
  LET S1 == [S EXCEPT !.runs[r].tasks[p].segs[k].pc = "thrown"]
  IN IF S.runs[r].tasks[p].pc = "segs" THEN RestorationThrow(S1, r, p) ELSE S1

\* variant: the head of the loop does not test the signal
SegAttempt_NoSignalTest(S, r, p, k, a) ==
  [S EXCEPT !.runs[r].tasks[p].segs[k].pc = "fetch",
            !.runs[r].tasks[p].segs[k].attempt = a,
            !.runs[r].tasks[p].segs[k].requests = @ + 1]

\* head of the per-table retry loop for attempt a (lines 250-278)
SegAttempt(S, r, p, k, a) ==
  IF S.runs[r].aborted
  THEN SegThrow(S, r, p, k)
  ELSE [S EXCEPT !.runs[r].tasks[p].segs[k].pc = "fetch",
                 !.runs[r].tasks[p].segs[k].attempt = a,
                 !.runs[r].tasks[p].segs[k].requests = @ + 1]

\* processFile: initial pagesData (App.tsx:304-310)
InitPages(S, r, pageMap) ==
  [S EXCEPT
     !.files = MapFile(@, S.runs[r].doc,
                 [pageMap |-> pageMap,
                  pagesData |-> [idx \in 0..(Len(pageMap) - 1) |-> initialPage]]),
     !.runs[r].pageMap = pageMap]

\* variant: the credential is not tested before the work starts
ProcessDocumentStart_NoKeyCheck(S, r) ==
  IF S.runs[r].type = "pdf" THEN [S EXCEPT !.runs[r].pc = "pd_load"]
  ELSE IF S.runs[r].type = "image" THEN [S EXCEPT !.runs[r].pc = "img_load"]
  ELSE PfCatch(S, r, FALSE)

\* processDocument up to its first suspension (lines 412-424, 525-528, 561-563)
ProcessDocumentStart(S, r) ==
  IF ~apiKey THEN PfCatch(S, r, FALSE)
  ELSE IF S.runs[r].type = "pdf" THEN [S EXCEPT !.runs[r].pc = "pd_load"]
  ELSE IF S.runs[r].type = "image" THEN [S EXCEPT !.runs[r].pc = "img_load"]
  ELSE PfCatch(S, r, FALSE)

\* processFile up to its first suspension (App.tsx:286-312)
ProcessFileStart(S, f) ==
  LET r == S.nextRun
      S1 == [S EXCEPT
               !.ref = r,
               !.files = MapFile(@, f.id,
                           [status |-> "processing", statusMessage |-> "starting",
                            content |-> <<>>]),
               !.runs = Put(@, r, NewRun(f)),
               !.nextRun = @ + 1]
  IN IF f.type = "pdf" THEN S1
     ELSE ProcessDocumentStart(InitPages(S1, r, <<1 * Scale>>), r)

\* variant: a failed file still counts as a running job
activeJobs_CountsError(fs) ==
  Cardinality({k \in DOMAIN fs : fs[k].status \in {"processing", "error"}})

\* App.tsx:276
activeJobs(fs) == Cardinality({k \in DOMAIN fs : fs[k].status = "processing"})

\* files.find(f => f.status === 'queued'): index of the first queued file, 0 if none
nextQueuedFile(fs) ==
  LET queued == {k \in DOMAIN fs : fs[k].status = "queued"}
  IN IF queued = {} THEN 0 ELSE CHOOSE k \in queued : \A j \in queued : k <= j

\* variant: the first queued file is started whatever is running
QueueEffect_NoLimit(S) ==
  IF nextQueuedFile(S.files) = 0
  THEN S
  ELSE ProcessFileStart(S, S.files[nextQueuedFile(S.files)])

\* the queue effect (App.tsx:274-284), re-run after every change of files
RECURSIVE QueueEffect(_)
QueueEffect(S) ==
  IF activeJobs(S.files) >= MAX_CONCURRENT_JOBS \/ nextQueuedFile(S.files) = 0
  THEN S
  ELSE QueueEffect(ProcessFileStart(S, S.files[nextQueuedFile(S.files)]))

Cur == [files |-> files, runs |-> runs, ref |-> abortControllerRef, nextRun |-> nextRun]

\* callOcrModel is on the stack of the run
InOcrCall(R) == R.pc \in {"ocr_fetch", "ocr_backoff"}

\* the locals of a returned callOcrModel invocation are gone
OcrCallForgotten(R) ==
  [R EXCEPT !.attempt = 0, !.lastError = "none", !.ocrResult = "none",
            !.requests = 0, !.failures = <<>>, !.waits = <<>>, !.thrown = "none"]

\* commit the outcome of one event-loop task, then run the queue effect; a run
\* that had finished before this task is forgotten, and so is the record of an
\* OCR call that had returned before this task
Commit(S) ==
  LET T == QueueEffect(S)
      live == {r \in DOMAIN T.runs : ~(r \in DOMAIN runs /\ Finished(runs[r]))}
      remembered(r) ==
        IF r \in DOMAIN runs /\ ~InOcrCall(runs[r]) /\ ~InOcrCall(T.runs[r])
        THEN OcrCallForgotten(T.runs[r]) ELSE T.runs[r]
  IN /\ files' = T.files
     /\ runs' = [r \in live |-> remembered(r)]
     /\ abortControllerRef' = T.ref
     /\ nextRun' = T.nextRun
     /\ queueOrder' =
          LET stillQueued(id) == \E k \in DOMAIN T.files :
                                   T.files[k].id = id /\ T.files[k].status = "queued"
              kept == SelectSeq(queueOrder, stillQueued)
              ids == [k \in DOMAIN T.files |-> T.files[k].id]
          IN kept \o SelectSeq(ids, LAMBDA id : stillQueued(id) /\ id \notin Range(kept))

-----------------------------------------------------------------------------
(* Continuations of the awaited calls *)

\* the tokens standing for a code fence with and without the word markdown
Fence == "[fence]"
FenceMarkdown == "[fence]markdown"

DropLeadingWs(s) ==
  LET n == Cardinality({k \in 1..Len(s) : \A j \in 1..k : s[j] = " "})
  IN SubSeq(s, n + 1, Len(s))

DropTrailingWs(s) ==
  LET n == Cardinality({k \in 1..Len(s) : \A j \in k..Len(s) : s[j] = " "})
  IN SubSeq(s, 1, Len(s) - n)

\* callOcrModel line 185: the three replace() calls on the model's answer
stripFences(content) ==
  LET r1 == IF content # <<>> /\ Head(content) = FenceMarkdown
            THEN DropLeadingWs(Tail(content)) ELSE content
      r2 == IF r1 # <<>> /\ Head(r1) = Fence THEN DropLeadingWs(Tail(r1)) ELSE r1
  IN IF r2 # <<>> /\ r2[Len(r2)] = Fence
     THEN DropTrailingWs(SubSeq(r2, 1, Len(r2) - 1)) ELSE r2

\* the update of a page without a table tag (lines 463-469, 538-545)
\* variant: the page without a table is reported as holding one
NoTableUpdate_HasTable ==
  [status |-> "complete",
   verificationResult |-> Some([hasTable |-> TRUE, reason |-> "no table"])]

NoTableUpdate ==
  [status |-> "complete",
   verificationResult |-> Some([hasTable |-> FALSE, reason |-> "no table"])]

\* restorationTask up to its first suspension (lines 473-477, 503)
StartRestorationTask(S, r, p, rawContent) ==
  [S EXCEPT !.runs[r].tasks =
     Put(@, p, [NewTask(rawContent, FALSE) EXCEPT
                  !.pc = IF S.runs[r].aborted THEN "done" ELSE "delay"])]

\* variant: the table test guards only the completion, every page gets a
\* restoration task
PageOcrDone_AlwaysTask(S, r, rawContent) ==
  LET p == S.runs[r].i
      S1 == Publish(S, r, p, [rawOCR |-> rawContent, restored |-> None,
                              status |-> "ocr_success"])
      S2 == IF ~hasTableTag(rawContent) THEN Publish(S1, r, p, NoTableUpdate) ELSE S1
  IN StartRestorationTask(S2, r, p, rawContent)

\* variant: the raw text is first published together with the final update
PageOcrDone_NoOcrSuccess(S, r, rawContent) ==
  LET p == S.runs[r].i
  IN IF ~hasTableTag(rawContent)
     THEN Publish(S, r, p, [rawOCR |-> rawContent] @@ NoTableUpdate)
     ELSE StartRestorationTask(S, r, p, rawContent)

\* PDF branch after callOcrModel returned for page index i (lines 447-505)
PageOcrDone(S, r, rawContent) ==
  LET p == S.runs[r].i
      S1 == Publish(S, r, p, [rawOCR |-> rawContent, restored |-> None,
                              status |-> "ocr_success"])
  IN IF ~hasTableTag(rawContent)
     THEN Publish(S1, r, p, NoTableUpdate)
     ELSE StartRestorationTask(S1, r, p, rawContent)

\* variant: the loop of the PDF branch does not advance after a success
OcrSuccess_SamePage(S0, r, content) ==
  LET R == S0.runs[r]
      S == [S0 EXCEPT !.runs[r].ocrResult = "ok"]
      rawContent == stripFences(content)
      noTable == NoTableUpdate
  IN IF R.type = "pdf"
     THEN LoopTop(PageOcrDone(S, r, rawContent), r)
     ELSE LET S1 == Publish(S, r, 0, [rawOCR |-> rawContent, status |-> "ocr_success"])
          IN IF ~hasTableTag(rawContent)
             THEN PfComplete(Publish(S1, r, 0, noTable), r)
             ELSE RestorationStart(
                    [S1 EXCEPT !.runs[r].pc = "img_restore",
                               !.runs[r].tasks = Put(@, 0, NewTask(rawContent, TRUE))], r, 0)

\* processDocument after callOcrModel returned (lines 447-505, 532-559)
OcrSuccess(S0, r, content) ==
  LET R == S0.runs[r]
      S == [S0 EXCEPT !.runs[r].ocrResult = "ok"]
      rawContent == stripFences(content)
      noTable == NoTableUpdate
  IN IF R.type = "pdf"
     THEN LoopTop([PageOcrDone(S, r, rawContent) EXCEPT !.runs[r].i = @ + 1], r)
     ELSE LET S1 == Publish(S, r, 0, [rawOCR |-> rawContent, status |-> "ocr_success"])
          IN IF ~hasTableTag(rawContent)
             THEN PfComplete(Publish(S1, r, 0, noTable), r)
             ELSE RestorationStart(
                    [S1 EXCEPT !.runs[r].pc = "img_restore",
                               !.runs[r].tasks = Put(@, 0, NewTask(rawContent, TRUE))], r, 0)

\* error.message.includes('429') (line 194)
isRateLimit(kind) == kind = "429"

\* variant: the rate-limit wait shrinks with the attempts that remain
waitTime_Remaining(kind, i) ==
  IF isRateLimit(kind) THEN 5000 * (OCR_RETRIES - 1 - i) ELSE 1000 * 2^i

\* variant: the rate-limit wait is computed from the loop index itself
waitTime_LoopIndex(kind, i) == IF isRateLimit(kind) THEN 5000 * i ELSE 1000 * 2^i

\* waitTime in ms after the failure of the attempt with loop index i (line 199)
waitTime(kind, i) == IF isRateLimit(kind) THEN 5000 * (i + 1) ELSE 1000 * 2^i

\* lastError = error (line 193)
OcrCaught(S, r, kind) ==
  [S EXCEPT !.runs[r].lastError = kind, !.runs[r].failures = Append(@, kind)]

\* the wait of line 200 begins
OcrBackoff(S, r, kind) ==
  [S EXCEPT !.runs[r].pc = "ocr_backoff",
            !.runs[r].waits = Append(@, waitTime(kind, S.runs[r].attempt))]

\* variant: only the name of the error is tested, not the signal
OcrFailure_NameOnly(S, r, kind) ==
  LET R == S.runs[r]
      S1 == OcrCaught(S, r, kind)
  IN IF kind = "AbortError" THEN OcrThrow(S, r, "aborted")
     ELSE IF R.attempt < OCR_RETRIES - 1
     THEN OcrBackoff(S1, r, kind)
     ELSE OcrThrow(S1, r, S1.runs[r].lastError)

\* variant: the loop runs while i <= retries
OcrFailure_OneMoreAttempt(S, r, kind) ==
  LET R == S.runs[r]
      S1 == OcrCaught(S, r, kind)
  IN IF kind = "AbortError" \/ R.aborted THEN OcrThrow(S, r, "aborted")
     ELSE IF R.attempt < OCR_RETRIES
     THEN OcrBackoff(S1, r, kind)
     ELSE OcrThrow(S1, r, S1.runs[r].lastError)

\* callOcrModel, the catch block (lines 190-204)
OcrFailure(S, r, kind) ==
  LET R == S.runs[r]
      S1 == OcrCaught(S, r, kind)
  IN IF kind = "AbortError" \/ R.aborted THEN OcrThrow(S, r, "aborted")
     ELSE IF R.attempt < OCR_RETRIES - 1
     THEN OcrBackoff(S1, r, kind)
     ELSE OcrThrow(S1, r, S1.runs[r].lastError)

\* callLayoutRestorationModel, the request of a table part succeeded (lines 285-318)
SegSuccess(S, r, p, k, finalContent) ==
  LET kept == outputHasTable(finalContent)
  IN SegsSettle(
       [S EXCEPT !.runs[r].tasks[p].segs[k].pc = "done",
                 !.runs[r].tasks[p].segs[k].out = finalContent,
                 !.runs[r].tasks[p].hasAnyRealTable = @ \/ kept,
                 !.runs[r].tasks[p].hasAnyCleaned = @ \/ ~kept], r, p)

\* variant: the last failure is thrown instead of falling back to the table
SegFailure_ThrowsLast(S, r, p, k, kind) ==
  LET seg == S.runs[r].tasks[p].segs[k]
      S1 == [S EXCEPT !.runs[r].tasks[p].segs[k].lastError = kind,
                      !.runs[r].tasks[p].segs[k].failed = @ + 1]
  IN IF kind = "AbortError" \/ S.runs[r].aborted THEN SegThrow(S, r, p, k)
     ELSE IF seg.attempt = RESTORE_RETRIES - 1
     THEN SegThrow(S1, r, p, k)
     ELSE [S1 EXCEPT !.runs[r].tasks[p].segs[k].pc = "backoff"]

\* callLayoutRestorationModel, the catch block of a table part (lines 320-335)
SegFailure(S, r, p, k, kind) ==
  LET seg == S.runs[r].tasks[p].segs[k]
      S1 == [S EXCEPT !.runs[r].tasks[p].segs[k].lastError = kind,
                      !.runs[r].tasks[p].segs[k].failed = @ + 1]
  IN IF kind = "AbortError" \/ S.runs[r].aborted THEN SegThrow(S, r, p, k)
     ELSE IF seg.attempt = RESTORE_RETRIES - 1
     THEN SegsSettle([S1 EXCEPT !.runs[r].tasks[p].segs[k].pc = "done"], r, p)
     ELSE [S1 EXCEPT !.runs[r].tasks[p].segs[k].pc = "backoff"]

-----------------------------------------------------------------------------
(* Actions: user events *)

NewDoc(id, file, status) ==
  [id |-> id, type |-> file.type, numPages |-> file.numPages, status |-> status,
   statusMessage |-> IF status = "queued" THEN "waiting" ELSE "waiting config",
   pageRange |-> IF status = "queued" THEN <<"a", "l", "l">> ELSE <<>>,
   pageMap |-> IF status = "queued" THEN <<1 * Scale>> ELSE <<>>,
   viewMode |-> "undefined", content |-> <<>>,
   pdfUrl |-> IF file.type \in {"pdf", "image"} THEN Some(id) ELSE None,
   pagesData |-> <<>>]

\* handleFileUpload (App.tsx:645-695); ids 1..maxDocs are available
handleFileUpload(validFiles, maxDocs) ==
  /\ validFiles # <<>>
  /\ nextId + Len(validFiles) - 1 <= maxDocs
  /\ IF Len(validFiles) = 1 /\ validFiles[1].type = "pdf"
     THEN /\ Commit([Cur EXCEPT !.files =
                       Append(@, NewDoc(nextId, validFiles[1], "waiting_config"))])
          /\ pendingFileId' = nextId
          /\ showPageSelector' = TRUE
     ELSE /\ Commit([Cur EXCEPT !.files =
                       @ \o [k \in 1..Len(validFiles) |->
                               NewDoc(nextId + k - 1, validFiles[k], "queued")]])
          /\ UNCHANGED <<pendingFileId, showPageSelector>>
  /\ nextId' = nextId + Len(validFiles)
  /\ activeFileId' = nextId
  /\ editorPage' = 1
  /\ objectUrls' = objectUrls \cup
       UNION {NewDoc(nextId + k - 1, validFiles[k], "queued").pdfUrl : k \in 1..Len(validFiles)}
  /\ UNCHANGED <<apiKey, retried, retrying, userOps, exportVars>>

\* confirmPageRange (App.tsx:697-702)
confirmPageRange(pageRangeInput) ==
  /\ showPageSelector
  /\ pendingFileId # -1
  /\ Commit([Cur EXCEPT !.files = MapFile(@, pendingFileId,
               [pageRange |-> pageRangeInput, status |-> "queued"])])
  /\ showPageSelector' = FALSE
  /\ pendingFileId' = -1
  /\ UNCHANGED <<apiKey, nextId, retried, activeFileId, editorPage, retrying, userOps,
                 objectUrls, exportVars>>

\* the cancel button of the page-range selector (App.tsx:1016)
cancelPageRange ==
  /\ showPageSelector
  /\ Commit([Cur EXCEPT !.files = SelectSeq(@, LAMBDA f : f.id # pendingFileId)])
  /\ showPageSelector' = FALSE
  /\ UNCHANGED <<pendingFileId, apiKey, nextId, retried, activeFileId, editorPage,
                 retrying, userOps, objectUrls, exportVars>>

\* deleteFile (App.tsx:704-712)
deleteFile(id) ==
  /\ \E k \in DOMAIN files : files[k].id = id
  /\ Commit([Cur EXCEPT !.files = SelectSeq(@, LAMBDA f : f.id # id)])
  /\ LET newFiles == SelectSeq(files, LAMBDA f : f.id # id)
     IN activeFileId' = IF activeFileId = id /\ newFiles # <<>> THEN newFiles[1].id
                        ELSE IF newFiles = <<>> THEN -1
                        ELSE activeFileId
  /\ editorPage' = IF activeFileId' # activeFileId THEN 1 ELSE editorPage
  /\ objectUrls' = objectUrls \ UNION {f.pdfUrl : f \in {g \in Range(files) : g.id = id}}
  /\ UNCHANGED <<pendingFileId, showPageSelector, apiKey, nextId, retried, retrying,
                 userOps, exportVars>>

\* variant: the retry button is offered for a file in any status
retryFullOcr_AnyStatus(fileId, maxRetries) ==
  /\ \E k \in DOMAIN files : files[k].id = fileId
  /\ retried < maxRetries
  /\ Commit([Cur EXCEPT !.files = MapFile(@, fileId,
               [status |-> "queued", statusMessage |-> "retrying", content |-> <<>>])])
  /\ retried' = retried + 1
  /\ UNCHANGED <<pendingFileId, showPageSelector, apiKey, nextId,
                 activeFileId, editorPage, retrying, userOps, objectUrls, exportVars>>

\* retryFullOcr (App.tsx:715-717), offered for a file in status error (794, 1055)
retryFullOcr(fileId, maxRetries) ==
  /\ \E k \in DOMAIN files : files[k].id = fileId /\ files[k].status = "error"
  /\ retried < maxRetries
  /\ Commit([Cur EXCEPT !.files = MapFile(@, fileId,
               [status |-> "queued", statusMessage |-> "retrying", content |-> <<>>])])
  /\ retried' = retried + 1
  /\ UNCHANGED <<pendingFileId, showPageSelector, apiKey, nextId,
                 activeFileId, editorPage, retrying, userOps, objectUrls, exportVars>>

\* handleStopProcessing (App.tsx:365-370), offered while a file is processing (879)
handleStopProcessing ==
  /\ \E k \in DOMAIN files : files[k].status = "processing"
  /\ abortControllerRef # 0
  /\ Commit([Cur EXCEPT !.runs[abortControllerRef].aborted = TRUE, !.ref = 0])
  /\ UNCHANGED <<pendingFileId, showPageSelector, apiKey, nextId, retried,
                 activeFileId, editorPage, retrying, userOps, objectUrls, exportVars>>

\* handleSaveSettings (App.tsx:229-233): the key typed in the settings dialog
\* is stored; checkApiKey (geminiService.ts:70-72) finds an empty key falsy
handleSaveSettings(apiKeyInput) ==
  /\ apiKey' = (apiKeyInput # "")
  /\ UNCHANGED <<files, abortControllerRef, pendingFileId, showPageSelector, runs,
                 nextId, nextRun, retried, queueOrder, activeFileId, editorPage,
                 retrying, userOps, objectUrls, exportVars>>

-----------------------------------------------------------------------------
(* Actions: continuations of run r *)

Frame == UNCHANGED <<pendingFileId, showPageSelector, apiKey, nextId, retried,
                     activeFileId, editorPage, retrying, userOps, objectUrls, exportVars>>

\* processFile: the PDF was loaded (App.tsx:297-312)
PfLoaded(r) ==
  /\ r \in DOMAIN runs /\ runs[r].pc = "pf_load"
  /\ ~parsePageRangeDiverges(runs[r].pageRange)
  /\ Commit(ProcessDocumentStart(
       InitPages(Cur, r, parsePageRange(runs[r].pageRange, runs[r].numPages)), r))
  /\ Frame

\* processFile: the PDF was loaded and parsePageRange (App.tsx:299) entered
\* a loop that never ends; the loop keeps the only thread of the page
PfParseLoops(r) ==
  /\ r \in DOMAIN runs /\ runs[r].pc = "pf_load"
  /\ parsePageRangeDiverges(runs[r].pageRange)
  /\ Commit([Cur EXCEPT !.runs[r].pc = "parse_loop"])
  /\ Frame

\* the thread of the page is kept by a loop: no handler or continuation runs
ThreadBlocked == \E r \in DOMAIN runs : runs[r].pc = "parse_loop"

\* pdfjs rejected the file (App.tsx:298 or geminiService.ts:424)
PdfLoadFailed(r) ==
  /\ r \in DOMAIN runs /\ runs[r].pc \in {"pf_load", "pd_load"}
  /\ Commit(PfCatch(Cur, r, FALSE))
  /\ Frame

\* processDocument: the PDF was loaded (line 424), the loop starts
PdLoaded(r) ==
  /\ r \in DOMAIN runs /\ runs[r].pc = "pd_load"
  /\ Commit(LoopTop(Cur, r))
  /\ Frame

\* processDocument, image branch: fileToBase64 resolved (lines 528-532)
ImgLoaded(r) ==
  /\ r \in DOMAIN runs /\ runs[r].pc = "img_load"
  /\ Commit(OcrAttempt(Publish(Cur, r, 0, [status |-> "pending"]), r, 0))
  /\ Frame

\* renderPageToImage resolved (lines 442-447)
RenderDone(r) ==
  /\ r \in DOMAIN runs /\ runs[r].pc = "render"
  /\ Commit(IF runs[r].aborted THEN PfCatch(Cur, r, TRUE) ELSE OcrAttempt(Cur, r, 0))
  /\ Frame

\* renderPageToImage rejected (line 108)
RenderFailed(r) ==
  /\ r \in DOMAIN runs /\ runs[r].pc = "render"
  /\ Commit([OcrThrow(Cur, r, "render") EXCEPT !.runs[r].ocrResult = runs[r].ocrResult])
  /\ Frame

\* the OCR request was answered with 2xx and `content`
OcrSucceeds(r, content) ==
  /\ r \in DOMAIN runs /\ runs[r].pc = "ocr_fetch" /\ ~runs[r].aborted
  /\ Commit(OcrSuccess(Cur, r, content))
  /\ Frame

\* the OCR request failed: a non-2xx status, a network error or the abort
OcrFails(r, kind) ==
  /\ r \in DOMAIN runs /\ runs[r].pc = "ocr_fetch"
  /\ kind = "AbortError" => runs[r].aborted
  /\ Commit(OcrFailure(Cur, r, kind))
  /\ Frame

\* the backoff timer of callOcrModel fired (line 200)
OcrBackoffElapsed(r) ==
  /\ r \in DOMAIN runs /\ runs[r].pc = "ocr_backoff"
  /\ Commit(OcrAttempt(Cur, r, runs[r].attempt + 1))
  /\ Frame

\* restoration task of page p: the 200 ms timer fired (lines 477-482)
TaskDelayElapsed(r, p) ==
  /\ r \in DOMAIN runs /\ p \in DOMAIN runs[r].tasks /\ runs[r].tasks[p].pc = "delay"
  /\ Commit(RestorationStart(Publish(Cur, r, p, [status |-> "restoring"]), r, p))
  /\ Frame

SegAt(r, p, k, pc) ==
  /\ r \in DOMAIN runs /\ p \in DOMAIN runs[r].tasks
  /\ k \in DOMAIN runs[r].tasks[p].segs
  /\ runs[r].tasks[p].segs[k].pc = pc

\* the restoration request of part k was answered with 2xx and `finalContent`
SegSucceeds(r, p, k, finalContent) ==
  /\ SegAt(r, p, k, "fetch") /\ ~runs[r].aborted
  /\ Commit(SegSuccess(Cur, r, p, k, finalContent))
  /\ Frame

\* the restoration request of part k failed
SegFails(r, p, k, kind) ==
  /\ SegAt(r, p, k, "fetch")
  /\ kind = "AbortError" => runs[r].aborted
  /\ Commit(SegFailure(Cur, r, p, k, kind))
  /\ Frame

\* the backoff timer of part k fired (line 334)
SegBackoffElapsed(r, p, k) ==
  /\ SegAt(r, p, k, "backoff")
  /\ Commit(SegAttempt(Cur, r, p, k, runs[r].tasks[p].segs[k].attempt + 1))
  /\ Frame

-----------------------------------------------------------------------------
(* Specifications *)

\* the state after construction, up to the rows of the evaluation set
InitWorkbench ==
  /\ files = <<SampleDoc>>
  /\ abortControllerRef = 0
  /\ pendingFileId = -1
  /\ showPageSelector = FALSE
  /\ apiKey = TRUE
  /\ runs = <<>>
  /\ nextId = 1
  /\ nextRun = 1
  /\ retried = 0
  /\ queueOrder = <<>>
  /\ activeFileId = 0
  /\ editorPage = 1
  /\ retrying = {}
  /\ userOps = 0
  /\ objectUrls = {}
  /\ download = None

Init ==
  /\ InitWorkbench
  /\ evalDatasetRows = <<>>

PdfFile(n) == [type |-> "pdf", numPages |-> n]
ImageFile == [type |-> "image", numPages |-> 1]

RunIds == 1..(nextRun - 1)
PageIdx == 0..(MaxPages - 1)
PartIdx == 1..3

OcrTexts == {<<"a">>, <<"a", TableOpen, "x", TableClose>>, <<TableOpen, "a">>}
RestoreTexts == {<<"x">>, <<TableOpen, "x", TableClose>>}
OcrErrors == {"429", "500", "AbortError"}
RestoreErrors == {"500", "AbortError"}
PageRangeInputs == {<<"a", "l", "l">>, <<"2">>}

\* a file whose extension passes the upload filter and whose MIME type is
\* neither application/pdf nor image/* (App.tsx:648, geminiService.ts:561)
OtherFile == [type |-> "other", numPages |-> 1]

\* the steps of the runs, for the given answers of the two models
Pipeline(texts, ocrErrors, restoreTexts, restoreErrors) ==
  \/ \E r \in RunIds : PfLoaded(r)
  \/ \E r \in RunIds : PdfLoadFailed(r)
  \/ \E r \in RunIds : PdLoaded(r)
  \/ \E r \in RunIds : ImgLoaded(r)
  \/ \E r \in RunIds : RenderDone(r)
  \/ \E r \in RunIds : RenderFailed(r)
  \/ \E r \in RunIds, c \in texts : OcrSucceeds(r, c)
  \/ \E r \in RunIds, e \in ocrErrors : OcrFails(r, e)
  \/ \E r \in RunIds : OcrBackoffElapsed(r)
  \/ \E r \in RunIds, p \in PageIdx : TaskDelayElapsed(r, p)
  \/ \E r \in RunIds, p \in PageIdx, k \in PartIdx, c \in restoreTexts :
        SegSucceeds(r, p, k, c)
  \/ \E r \in RunIds, p \in PageIdx, k \in PartIdx, e \in restoreErrors :
        SegFails(r, p, k, e)
  \/ \E r \in RunIds, p \in PageIdx, k \in PartIdx : SegBackoffElapsed(r, p, k)

\* Spec: one uploaded document (a PDF of MaxPages pages or an image), every
\* answer of the two models, stop and delete at any moment
Next ==
  \/ \E f \in {PdfFile(MaxPages), ImageFile} : handleFileUpload(<<f>>, 1)
  \/ \E in \in PageRangeInputs : confirmPageRange(in)
  \/ deleteFile(1)
  \/ handleStopProcessing
  \/ Pipeline(OcrTexts, OcrErrors, RestoreTexts, RestoreErrors)

Spec == Init /\ [][Next]_vars

\* SchedSpec: up to SchedDocs one-page documents whose pages carry no table,
\* with stops, load failures, full retries, page-range dialogs and the deletion
\* of the first uploaded document
SchedNext ==
  \/ \E f \in {PdfFile(1), ImageFile} : handleFileUpload(<<f>>, SchedDocs)
  \/ confirmPageRange(<<"1">>)
  \/ cancelPageRange
  \/ deleteFile(1)
  \/ \E id \in 1..SchedDocs : retryFullOcr(id, SchedRetries)
  \/ handleStopProcessing
  \/ \E r \in RunIds : PfLoaded(r)
  \/ \E r \in RunIds : PdfLoadFailed(r)
  \/ \E r \in RunIds : PdLoaded(r)
  \/ \E r \in RunIds : ImgLoaded(r)
  \/ \E r \in RunIds : RenderDone(r)
  \/ \E r \in RunIds : OcrSucceeds(r, <<"a">>)
  \/ \E r \in RunIds : OcrFails(r, "AbortError")

SchedSpec == Init /\ [][SchedNext]_vars

\* OcrSpec: one document of one page whose text carries no table; every
\* answer to the OCR request, the invalid-credential answer included
OcrSpecTexts == {<<"a">>, <<FenceMarkdown, "a", Fence>>}
OcrSpecErrors == {"401", "429", "500", "AbortError"}

OcrNext ==
  \/ \E f \in {PdfFile(1), ImageFile} : handleFileUpload(<<f>>, 1)
  \/ confirmPageRange(<<"1">>)
  \/ handleStopProcessing
  \/ \E r \in RunIds : PfLoaded(r)
  \/ \E r \in RunIds : PdLoaded(r)
  \/ \E r \in RunIds : ImgLoaded(r)
  \/ \E r \in RunIds : RenderDone(r)
  \/ \E r \in RunIds, c \in OcrSpecTexts : OcrSucceeds(r, c)
  \/ \E r \in RunIds, e \in OcrSpecErrors : OcrFails(r, e)
  \/ \E r \in RunIds : OcrBackoffElapsed(r)

OcrSpec == Init /\ [][OcrNext]_vars

\* RestoreSpec: one document of one page whose OCR succeeds at once with a
\* text of one table, of two tables, or of a table followed by an unclosed
\* table tag; every answer to the restoration requests
RestoreSpecOcrTexts ==
  {<<TableOpen, "x", TableClose>>,
   <<TableOpen, "x", TableClose, "b", TableOpen, "y", TableClose>>,
   <<TableOpen, "x", TableClose, TableOpen, "a">>,
   <<"a", TableOpen, "x", TableClose, "b", TableOpen, "y", TableClose, "c">>,
   <<TableOpen, "a">>}
RestoreSpecPartIdx == 1..5

RestoreNext ==
  \/ \E f \in {PdfFile(1), ImageFile} : handleFileUpload(<<f>>, 1)
  \/ confirmPageRange(<<"1">>)
  \/ handleStopProcessing
  \/ \E r \in RunIds : PfLoaded(r)
  \/ \E r \in RunIds : PdLoaded(r)
  \/ \E r \in RunIds : ImgLoaded(r)
  \/ \E r \in RunIds : RenderDone(r)
  \/ \E r \in RunIds, c \in RestoreSpecOcrTexts : OcrSucceeds(r, c)
  \/ \E r \in RunIds : OcrFails(r, "AbortError")
  \/ \E r \in RunIds : TaskDelayElapsed(r, 0)
  \/ \E r \in RunIds, k \in RestoreSpecPartIdx, c \in RestoreTexts : SegSucceeds(r, 0, k, c)
  \/ \E r \in RunIds, k \in RestoreSpecPartIdx, e \in RestoreErrors : SegFails(r, 0, k, e)
  \/ \E r \in RunIds, k \in RestoreSpecPartIdx : SegBackoffElapsed(r, 0, k)

RestoreSpec == Init /\ [][RestoreNext]_vars

-----------------------------------------------------------------------------
(* The workspace: viewer, editor and the retry of one page *)

\* files.find(f => f.id === activeFileId) (App.tsx:141), as a set
activeFile == {f \in Range(files) : f.id = activeFileId}

\* the workspace shows the viewer and the editor of the file, none of the
\* screens for a starting, unconfigured, queued or failed file (App.tsx:1024-1058)
WorkspaceShown(f) ==
  /\ ~(f.status = "processing" /\ f.content = <<>> /\ DOMAIN f.pagesData = {})
  /\ f.status \notin {"waiting_config", "queued"}
  /\ ~(f.status = "error" /\ f.content = <<>>)

\* currentPhysicalPage (App.tsx:143-147)
currentPhysicalPage(f) ==
  IF f.pageMap = <<>> THEN editorPage * Scale
  ELSE IF editorPage \in DOMAIN f.pageMap THEN f.pageMap[editorPage]
  ELSE 1 * Scale

\* setFiles(prev => prev.map(f => f.id !== id ? f : update)) for one file
ReplaceFile(fs, id, updatedFile) ==
  [k \in DOMAIN fs |-> IF fs[k].id = id THEN updatedFile ELSE fs[k]]

EditorFrame == UNCHANGED <<pendingFileId, showPageSelector, apiKey, nextId, retried,
                           objectUrls, exportVars>>

\* a click on a file of the sidebar (App.tsx:775) and the effect on
\* activeFileId (App.tsx:236-240)
selectFile(id) ==
  /\ \E k \in DOMAIN files : files[k].id = id
  /\ activeFileId # id
  /\ Commit(Cur)
  /\ activeFileId' = id
  /\ editorPage' = 1
  /\ UNCHANGED <<retrying, userOps>>
  /\ EditorFrame

\* toggleViewMode (App.tsx:372-382)
toggleViewMode(maxOps) ==
  \E f \in activeFile :
    /\ WorkspaceShown(f)
    /\ userOps < maxOps
    /\ userOps' = userOps + 1
    /\ LET newMode == IF f.viewMode = "raw" THEN "restored" ELSE "raw"
           updatedFile == [f EXCEPT !.viewMode = newMode]
       IN Commit([Cur EXCEPT !.files =
                    ReplaceFile(@, f.id, [updatedFile EXCEPT
                                            !.content = reconstructContent(updatedFile)])])
    /\ UNCHANGED <<activeFileId, editorPage, retrying>>
    /\ EditorFrame

\* handlePageContentChange (App.tsx:492-526): the text typed into the editor
\* replaces the text of the page shown
handlePageContentChange(newText, maxOps) ==
  \E f \in activeFile :
    /\ WorkspaceShown(f)
    /\ userOps < maxOps
    /\ userOps' = userOps + 1
    /\ LET mode == IF f.viewMode = "undefined" THEN "restored" ELSE f.viewMode
           logicalIndex == editorPage - 1
           old == IF logicalIndex \in DOMAIN f.pagesData THEN f.pagesData[logicalIndex]
                  ELSE [rawOCR |-> <<>>, restored |-> Some(<<>>), status |-> "complete",
                        verificationResult |-> None, errorMessage |-> "undefined"]
           new == IF mode = "restored" THEN [old EXCEPT !.restored = Some(newText)]
                  ELSE [old EXCEPT !.rawOCR = newText]
           pages == pageContents(f)
           length == IF Len(pages) < editorPage THEN editorPage ELSE Len(pages)
           newPages == [n \in 1..length |->
                          IF n = editorPage THEN newText
                          ELSE IF n <= Len(pages) THEN pages[n] ELSE <<>>]
       IN Commit([Cur EXCEPT !.files =
                    ReplaceFile(@, f.id,
                      [f EXCEPT !.pagesData = Put(@, logicalIndex, new),
                                !.content = Join(newPages, <<SPLIT_MARKER>>)])])
    /\ UNCHANGED <<activeFileId, editorPage, retrying>>
    /\ EditorFrame

\* handleZoneWheel past the threshold (App.tsx:540-569)
handleZoneWheel(dir) ==
  \E f \in activeFile :
    /\ WorkspaceShown(f)
    /\ \/ dir = "prev" /\ editorPage > 1 /\ editorPage' = editorPage - 1
       \/ dir = "next" /\ editorPage < Len(pageContents(f)) /\ editorPage' = editorPage + 1
    /\ Commit(Cur)
    /\ UNCHANGED <<activeFileId, retrying, userOps>>
    /\ EditorFrame

\* PdfViewer handlePrev / handleNext (part_003:60-76) and onPageChange
\* (App.tsx:1076-1083): the viewer steps through pageMap
onPageChange(dir) ==
  \E f \in activeFile :
    /\ WorkspaceShown(f) /\ f.type = "pdf" /\ f.pageMap # <<>>
    /\ \E currentIndex \in DOMAIN f.pageMap :
         /\ f.pageMap[currentIndex] = currentPhysicalPage(f)
         /\ \A j \in 1..(currentIndex - 1) : f.pageMap[j] # currentPhysicalPage(f)
         /\ \/ dir = "prev" /\ currentIndex > 1 /\ editorPage' = currentIndex - 1
            \/ dir = "next" /\ currentIndex < Len(f.pageMap) /\ editorPage' = currentIndex + 1
    /\ Commit(Cur)
    /\ UNCHANGED <<activeFileId, retrying, userOps>>
    /\ EditorFrame

\* callOcrModel: customPrompt || defaultPrompt (geminiService.ts:145-146)
finalPrompt(customPrompt) ==
  IF customPrompt = "" THEN "<image> Convert the document to markdown." ELSE customPrompt

\* handleConfirmRetry up to the await of processSinglePage (App.tsx:390-404);
\* the retry button belongs to the viewer of a PDF and is disabled while the
\* page is retried (App.tsx:1072-1085, part_003:133-136)
handleConfirmRetry(retryPrompt, maxOps) ==
  \E f \in activeFile :
    /\ WorkspaceShown(f) /\ f.type = "pdf"
    /\ userOps < maxOps
    /\ userOps' = userOps + 1
    /\ \A t \in retrying : ~(t.doc = f.id /\ t.physicalPage = currentPhysicalPage(f))
    /\ retrying' = retrying \cup
         {[doc |-> f.id, physicalPage |-> currentPhysicalPage(f),
           logicalPageIndex |-> editorPage - 1, retryPrompt |-> retryPrompt,
           prompt |-> finalPrompt(retryPrompt)]}
    /\ Commit(Cur)
    /\ UNCHANGED <<activeFileId, editorPage>>
    /\ EditorFrame

\* handleConfirmRetry: the update of the file after processSinglePage
\* returned (App.tsx:409-427)
ManualOverride(f, logicalPageIndex, newContent) ==
  LET tempFile == [f EXCEPT !.pagesData =
                     Put(@, logicalPageIndex,
                         [rawOCR |-> newContent, restored |-> None,
                          status |-> "ocr_success", verificationResult |-> None,
                          errorMessage |-> "undefined"])]
  IN [tempFile EXCEPT !.content = reconstructContent(tempFile)]

\* handleConfirmRetry: processSinglePage returned the text of the page
\* (App.tsx:405-431, geminiService.ts:384-403, 183-188)
RetrySucceeds(t, content) ==
  /\ t \in retrying
  /\ apiKey
  /\ Commit([Cur EXCEPT !.files =
               [k \in DOMAIN @ |->
                  IF @[k].id = t.doc
                  THEN ManualOverride(@[k], t.logicalPageIndex, stripFences(content))
                  ELSE @[k]]])
  /\ retrying' = retrying \ {t}
  /\ UNCHANGED <<activeFileId, editorPage, userOps>>
  /\ EditorFrame

\* handleConfirmRetry: processSinglePage threw (App.tsx:433-438)
RetryFails(t) ==
  /\ t \in retrying
  /\ Commit(Cur)
  /\ retrying' = retrying \ {t}
  /\ UNCHANGED <<activeFileId, editorPage, userOps>>
  /\ EditorFrame

\* the instructions offered by the retry dialog (App.tsx:54-61)
OCR_PROMPT_PRESETS == {"<image> OCR this image.", "<image> Parse the figure."}

EditTexts == {<<"e">>, <<SPLIT_MARKER>>}
RetryTexts == {<<"n">>}
EditSpecOcrTexts == {<<TableOpen, "x", TableClose>>}
EditSpecRestoreTexts == {<<"x">>}

EditNext ==
  \/ handleFileUpload(<<PdfFile(EditPages)>>, 1)
  \/ confirmPageRange(<<"a", "l", "l">>)
  \/ \E id \in 0..1 : selectFile(id)
  \/ toggleViewMode(MaxOps)
  \/ \E e \in EditTexts : handlePageContentChange(e, MaxOps)
  \/ \E dir \in {"prev", "next"} : handleZoneWheel(dir)
  \/ \E dir \in {"prev", "next"} : onPageChange(dir)
  \/ \E q \in OCR_PROMPT_PRESETS : handleConfirmRetry(q, MaxOps)
  \/ \E t \in retrying, c \in RetryTexts : RetrySucceeds(t, c)
  \/ \E t \in retrying : RetryFails(t)
  \/ \E r \in RunIds : PfLoaded(r)
  \/ \E r \in RunIds : PdLoaded(r)
  \/ \E r \in RunIds : RenderDone(r)
  \/ \E r \in RunIds : RenderFailed(r)
  \/ \E r \in RunIds, c \in EditSpecOcrTexts : OcrSucceeds(r, c)
  \/ \E r \in RunIds, p \in 0..(EditPages - 1) : TaskDelayElapsed(r, p)
  \/ \E r \in RunIds, p \in 0..(EditPages - 1), k \in PartIdx, c \in EditSpecRestoreTexts :
       SegSucceeds(r, p, k, c)

EditSpec == Init /\ [][EditNext]_vars

-----------------------------------------------------------------------------
(* The page-range parser: one PDF of 1..ParsePages pages is uploaded and   *)
(* its page-range expression is confirmed and parsed.                      *)

ParseAlphabet == {"1", "3", "-", ",", ".", " ", "a"}

ParseExprs ==
  UNION {[1..n -> ParseAlphabet] : n \in 0..MaxExprLen}
    \cup {<<"a", "l", "l">>, <<"1", ";", "3">>, <<"1", "-", "2", "-", "3">>,
          <<"1", ".", "3", "-", "3">>, <<"1", "-", "9", "9">>,
          InfinityLiteral, <<"1", "-">> \o InfinityLiteral,
          <<"5", "-">> \o InfinityLiteral}

\* with the one document of this specification no action is enabled once the
\* thread is blocked
ParseNext ==
  \/ \E n \in 1..ParsePages : handleFileUpload(<<PdfFile(n)>>, 1)
  \/ \E e \in ParseExprs : confirmPageRange(e)
  \/ \E r \in RunIds : PfLoaded(r)
  \/ \E r \in RunIds : PfParseLoops(r)

ParseSpec == Init /\ [][ParseNext]_vars

\* FatalSpec: up to FatalDocs documents (a PDF of one page, an image, a file
\* of another type), the key stored or removed at any moment, full retries;
\* the OCR text of a page is a table, so that a document that is not halted
\* issues OCR and restoration requests
FatalSpecOcrTexts == {<<TableOpen, "x", TableClose>>}
FatalSpecRestoreTexts == {<<"x">>}

FatalNext ==
  \/ \E f \in {PdfFile(1), ImageFile, OtherFile} : handleFileUpload(<<f>>, FatalDocs)
  \/ confirmPageRange(<<"1">>)
  \/ \E key \in {"", "sk"} : handleSaveSettings(key)
  \/ \E id \in 1..FatalDocs : retryFullOcr(id, SchedRetries)
  \/ \E r \in RunIds : PfLoaded(r)
  \/ \E r \in RunIds : PdLoaded(r)
  \/ \E r \in RunIds : ImgLoaded(r)
  \/ \E r \in RunIds : RenderDone(r)
  \/ \E r \in RunIds, c \in FatalSpecOcrTexts : OcrSucceeds(r, c)
  \/ \E r \in RunIds : TaskDelayElapsed(r, 0)
  \/ \E r \in RunIds, k \in PartIdx, c \in FatalSpecRestoreTexts : SegSucceeds(r, 0, k, c)

FatalSpec == Init /\ [][FatalNext]_vars

\* NoiseSpec: up to NoiseDocs documents (PDFs of MaxPages pages, images) whose OCR
\* answers carry code fences and the coordinate markers of the OCR model
DetOpen == "<|det|>"
DetClose == "<|/det|>"
BoxOpen == "<|box|>"
BoxClose == "<|/box|>"
QuadOpen == "<|quad|>"
QuadClose == "<|/quad|>"

NoiseSpecTexts ==
  {<<"a">>,
   <<FenceMarkdown, "a", Fence>>,
   <<"a", DetOpen, "[[1, 2, 3, 4]]", DetClose>>,
   <<BoxOpen, "a", BoxClose>>,
   <<QuadOpen, "a", QuadClose>>,
   <<Fence, "a", DetOpen, "[[1, 2, 3, 4]]", DetClose, Fence>>}

NoiseNext ==
  \/ \E f \in {PdfFile(MaxPages), ImageFile} : handleFileUpload(<<f>>, NoiseDocs)
  \/ confirmPageRange(<<"a", "l", "l">>)
  \/ \E r \in RunIds : PfLoaded(r)
  \/ \E r \in RunIds : PdLoaded(r)
  \/ \E r \in RunIds : ImgLoaded(r)
  \/ \E r \in RunIds : RenderDone(r)
  \/ \E r \in RunIds, c \in NoiseSpecTexts : OcrSucceeds(r, c)

NoiseSpec == Init /\ [][NoiseNext]_vars

-----------------------------------------------------------------------------
(* The export of the evaluation set; texts are sequences of characters *)

Quote == "\""
Comma == ","
CR == "\r"
LF == "\n"

\* value.replace(/"/g, '""')
RECURSIVE DoubleQuotes(_)
DoubleQuotes(value) ==
  IF value = <<>> THEN <<>>
  ELSE (IF Head(value) = Quote THEN <<Quote, Quote>> ELSE <<Head(value)>>)
       \o DoubleQuotes(Tail(value))

\* variant: the value is wrapped in quotes as it is
escapeCsvValue_NoDoubling(value) == <<Quote>> \o value \o <<Quote>>

\* escapeCsvValue (App.tsx:157)
escapeCsvValue(value) == <<Quote>> \o DoubleQuotes(value) \o <<Quote>>

\* the two header lines (App.tsx:54-55), one token per column title
EVAL_CSV_HEADER_CN == <<<<"Ming Cheng">>, <<"ocr Jie Guo">>, <<"Tu Pian">>>>
EVAL_CSV_HEADER_TYPES == <<<<"name">>, <<"ocr_text">>, <<"pdf_img">>>>

\* values.map(escapeCsvValue).join(',')
CsvLine(values) == Join([k \in DOMAIN values |-> escapeCsvValue(values[k])], <<Comma>>)

\* buildEvalDatasetCsv (App.tsx:159-167)
buildEvalDatasetCsv(rows) ==
  LET lines == <<CsvLine(EVAL_CSV_HEADER_CN), CsvLine(EVAL_CSV_HEADER_TYPES)>>
               \o [k \in DOMAIN rows |->
                     CsvLine(<<rows[k].name, rows[k].ocr_text, rows[k].pdf_img>>)]
  IN Join(lines, <<CR, LF>>)

\* exportEvalDatasetCsv (App.tsx:208-211); the button is disabled while the
\* set is empty (App.tsx:860); downloadTextFile revokes the URL it makes
exportEvalDatasetCsv ==
  /\ evalDatasetRows # <<>>
  /\ download' = Some(buildEvalDatasetCsv(evalDatasetRows))
  /\ UNCHANGED <<files, abortControllerRef, pendingFileId, showPageSelector, apiKey,
                 runs, nextId, nextRun, retried, queueOrder, activeFileId, editorPage,
                 retrying, userOps, objectUrls, evalDatasetRows>>

\* clearEvalDataset (App.tsx:213-218), confirmed by the user
clearEvalDataset ==
  /\ evalDatasetRows # <<>>
  /\ evalDatasetRows' = <<>>
  /\ UNCHANGED <<files, abortControllerRef, pendingFileId, showPageSelector, apiKey,
                 runs, nextId, nextRun, retried, queueOrder, activeFileId, editorPage,
                 retrying, userOps, objectUrls, download>>

\* CsvSpec: buildEvalDatasetCsv applied to the rows of the evaluation set, of
\* which there are up to MaxRows; the ocr_text of a row is any text of up to
\* MaxValueLen characters among a letter, the quote, the comma, CR and LF
CsvChars == {"a", Quote, Comma, CR, LF}

RECURSIVE CsvTexts(_)
CsvTexts(n) ==
  IF n = 0 THEN {<<>>}
  ELSE CsvTexts(n - 1) \cup {Append(t, c) : t \in CsvTexts(n - 1), c \in CsvChars}

\* the name of a row is `${baseName}_${currentPhysicalPage}` (App.tsx:195-196)
CsvRow(k) ==
  {[name |-> <<"d", "_", ToString(k)>>, ocr_text |-> t, pdf_img |-> img] :
     t \in CsvTexts(MaxValueLen), img \in {<<"i">>, <<Quote, "i", Comma>>}}

CsvRowSeqs ==
  UNION {{rows \in [1..n -> UNION {CsvRow(k) : k \in 1..n}] :
            \A k \in 1..n : rows[k] \in CsvRow(k)} : n \in 1..MaxRows}

CsvInit ==
  /\ InitWorkbench
  /\ evalDatasetRows \in CsvRowSeqs

CsvNext ==
  \/ exportEvalDatasetCsv
  \/ clearEvalDataset

CsvSpec == CsvInit /\ [][CsvNext]_vars

-----------------------------------------------------------------------------
(* Properties.  The specification each one is checked under is named in    *)
(* its comment.                                                            *)

\* C1 (Spec): in the sequence of statuses a run publishes for a page, every
\* two consecutive statuses form one of the edges pending -> ocr_success,
\* pending -> error, ocr_success -> complete, ocr_success -> restoring,
\* restoring -> complete, restoring -> error; hence nothing is published for
\* a page after complete or error.
C1_PageStatusEdges ==
  \A r \in DOMAIN runs : \A p \in DOMAIN runs[r].log :
    LET l == runs[r].log[p]
    IN \A j \in 1..(Len(l) - 1) :
         <<l[j].status, l[j + 1].status>> \in
           {<<"pending", "ocr_success">>, <<"pending", "error">>,
            <<"ocr_success", "complete">>, <<"ocr_success", "restoring">>,
            <<"restoring", "complete">>, <<"restoring", "error">>}

\* a run that drove one page through restoration and failed another page
C1_Witness ==
  \E r \in DOMAIN runs : \E p, q \in DOMAIN runs[r].log :
    /\ [j \in DOMAIN runs[r].log[p] |-> runs[r].log[p][j].status]
         = <<"pending", "ocr_success", "restoring", "complete">>
    /\ [j \in DOMAIN runs[r].log[q] |-> runs[r].log[q][j].status]
         = <<"pending", "error">>

\* C2 (Spec): in the step that sets a document to completed, every page of
\* the document is complete or error and every restoration task of its run
\* has settled, also when the run was cancelled.
C2_CompletedMeansSettled ==
  [][\A k \in DOMAIN files' :
       (/\ files'[k].status = "completed"
        /\ \E j \in DOMAIN files :
             files[j].id = files'[k].id /\ files[j].status # "completed")
       => /\ \A p \in DOMAIN files'[k].pagesData :
               files'[k].pagesData[p].status \in {"complete", "error"}
          /\ \A r \in DOMAIN runs' :
               runs'[r].doc = files'[k].id => TasksSettled(runs'[r])]_vars

\* C3 (Spec): when restoring has been published for a page, or a restoration
\* request of the page has been issued, ocr_success was published for the
\* page before, carrying the raw text the restoration works on.
C3_OcrSuccessBeforeRestoration ==
  \A r \in DOMAIN runs : \A p \in DOMAIN runs[r].log \cup DOMAIN runs[r].tasks :
    LET l == IF p \in DOMAIN runs[r].log THEN runs[r].log[p] ELSE <<>>
        restoringAt == {j \in DOMAIN l : l[j].status = "restoring"}
        requested == /\ p \in DOMAIN runs[r].tasks
                     /\ \E k \in DOMAIN runs[r].tasks[p].segs :
                          runs[r].tasks[p].segs[k].pc \in {"fetch", "backoff", "done"}
    IN (restoringAt # {} \/ requested) =>
         \E j \in DOMAIN l :
           /\ l[j].status = "ocr_success"
           /\ l[j].rawOCR # None
           /\ p \in DOMAIN runs[r].tasks => l[j].rawOCR = Some(runs[r].tasks[p].rawContent)
           /\ \A i \in restoringAt : j < i

\* restoring is published for a page and a restoration request is in flight
C3_Witness ==
  \E r \in DOMAIN runs : \E p \in DOMAIN runs[r].tasks :
    /\ p \in DOMAIN runs[r].log
    /\ \E j \in DOMAIN runs[r].log[p] : runs[r].log[p][j].status = "restoring"
    /\ \E k \in DOMAIN runs[r].tasks[p].segs : runs[r].tasks[p].segs[k].pc = "fetch"

\* C4 (SchedSpec): at most one document has status processing.
C4_AtMostOneProcessing ==
  Cardinality({k \in DOMAIN files : files[k].status = "processing"}) <= 1

\* one document is processing while two others wait in the queue
C4_Witness ==
  /\ \E k \in DOMAIN files : files[k].status = "processing"
  /\ Cardinality({k \in DOMAIN files : files[k].status = "queued"}) >= 2

\* C5 (SchedSpec): a waiting document that is admitted to processing is the
\* one that has been queued for the longest time.
C5_AdmittedInQueueOrder ==
  [][\A k \in DOMAIN files' :
       (files'[k].status = "processing" /\ files'[k].id \in Range(queueOrder))
       => files'[k].id = Head(queueOrder)]_vars

\* C6 (SchedSpec): no document waits in the queue while no document is
\* processing: the step that ends the document in flight, in error or in
\* completed, admits the next queued document.
C6_QueueAdvances ==
  (\E k \in DOMAIN files : files[k].status = "queued")
  => (\E k \in DOMAIN files : files[k].status = "processing")

\* a second run was started, a document has ended in error, another is processing
C6_Witness ==
  /\ nextRun >= 3
  /\ \E k \in DOMAIN files : files[k].status = "error"
  /\ \E k \in DOMAIN files : files[k].status = "processing"
  /\ queueOrder # <<>>

\* C7 (Spec): a run that ended after its cancellation does not leave its
\* document in status error.
C7_StoppedIsNotError ==
  \A r \in DOMAIN runs :
    (runs[r].aborted /\ runs[r].pc = "done") =>
      \A k \in DOMAIN files : files[k].id = runs[r].doc => files[k].status # "error"

\* C8 (Spec): once a run is cancelled, no OCR attempt of it is started, and
\* its OCR call, whether waiting for an answer or between two attempts, ends
\* with the outcome aborted and ends the run.
C8_OcrCancellation ==
  [][\A r \in DOMAIN runs \cap DOMAIN runs' :
       runs[r].aborted =>
         /\ runs'[r].pc = "ocr_fetch" =>
              (runs[r].pc = "ocr_fetch" /\ runs'[r].attempt = runs[r].attempt)
         /\ (runs[r].pc \in {"ocr_fetch", "ocr_backoff"} /\ runs'[r].pc # runs[r].pc)
              => (runs'[r].ocrResult = "aborted" /\ runs'[r].pc = "done")]_vars

\* an OCR call that had already failed once ended as aborted
C8_Witness ==
  \E r \in DOMAIN runs :
    /\ runs[r].aborted /\ runs[r].ocrResult = "aborted"
    /\ runs[r].attempt >= 1 /\ runs[r].lastError # "none"

\* C9 (Spec): no cancelled run is left waiting in a backoff, neither of the
\* OCR call nor of a restoration request.
C9_BackoffEndsOnCancel ==
  \A r \in DOMAIN runs :
    runs[r].aborted =>
      /\ runs[r].pc # "ocr_backoff"
      /\ \A p \in DOMAIN runs[r].tasks : \A k \in DOMAIN runs[r].tasks[p].segs :
           runs[r].tasks[p].segs[k].pc # "backoff"

\* C10 (Spec): from the step that cancels a run on, no step changes a page of
\* its document that is complete or error.
C10_CancelKeepsTerminalPages ==
  [][\A k \in DOMAIN files : \A j \in DOMAIN files' :
       (/\ files[k].id = files'[j].id
        /\ \E r \in DOMAIN runs \cap DOMAIN runs' :
             runs[r].doc = files[k].id /\ runs'[r].aborted)
       => \A p \in DOMAIN files[k].pagesData :
            files[k].pagesData[p].status \in {"complete", "error"}
            => /\ p \in DOMAIN files'[j].pagesData
               /\ files'[j].pagesData[p] = files[k].pagesData[p]]_vars

\* a cancelled run has ended; its document keeps a complete page beside a
\* page that never became terminal
C10_Witness ==
  \E r \in DOMAIN runs : \E k \in DOMAIN files :
    /\ runs[r].aborted /\ runs[r].pc = "done" /\ files[k].id = runs[r].doc
    /\ \E p, q \in DOMAIN files[k].pagesData :
         /\ files[k].pagesData[p].status = "complete"
         /\ files[k].pagesData[q].status \notin {"complete", "error"}

\* C11 (OcrSpec): one OCR call issues at most 5 requests; when 5 attempts
\* have failed the call has failed with the error of the fifth; when an
\* attempt has succeeded the call has returned and issued no request after it.
C11_OcrAtMostFiveAttempts ==
  \A r \in DOMAIN runs :
    /\ runs[r].requests <= 5
    /\ Len(runs[r].failures) = 5 =>
         /\ ~InOcrCall(runs[r])
         /\ runs[r].ocrResult = "error"
         /\ runs[r].thrown = runs[r].failures[5]
    /\ runs[r].ocrResult = "ok" =>
         /\ ~InOcrCall(runs[r])
         /\ runs[r].requests = Len(runs[r].failures) + 1

\* a call has failed after five failures that were not all of one kind
C11_Witness ==
  \E r \in DOMAIN runs :
    /\ Len(runs[r].failures) = 5 /\ runs[r].ocrResult = "error"
    /\ runs[r].failures[4] # runs[r].failures[5]

\* C12 (OcrSpec): an OCR call that received a 401 answer has ended, with that
\* single request and without any backoff wait.
C12_InvalidKeyIsFatal ==
  \A r \in DOMAIN runs :
    "401" \in Range(runs[r].failures) =>
      /\ ~InOcrCall(runs[r])
      /\ runs[r].requests = 1
      /\ runs[r].waits = <<>>

\* C13 (OcrSpec), as claimed: one numbering of the attempts (from 0 or from
\* 1) gives every wait of a call as 5000 x index after a 429 and as
\* 1000 x 2^index after another failure (401, which the claim does not
\* count as retryable, left aside), and there are at most 4 waits.
C13_OneNumbering ==
  \A r \in DOMAIN runs :
    /\ Len(runs[r].waits) <= 4
    /\ \E first \in {0, 1} : \A j \in DOMAIN runs[r].waits :
         runs[r].failures[j] # "401" =>
         runs[r].waits[j] = IF runs[r].failures[j] = "429"
                            THEN 5000 * (first + j - 1)
                            ELSE 1000 * 2^(first + j - 1)

\* C13 (OcrSpec), amended: the wait after the j-th failed attempt of a call
\* (j = 1..4) is 5000 x j when the failure was a 429 and 1000 x 2^(j-1)
\* when it was another failure (401 left aside); there is no wait after the
\* fifth failure.
C13_BackoffDelays ==
  \A r \in DOMAIN runs :
    /\ Len(runs[r].waits) <= 4
    /\ Len(runs[r].waits) <= Len(runs[r].failures)
    /\ runs[r].pc = "ocr_backoff" => Len(runs[r].waits) = Len(runs[r].failures)
    /\ \A j \in DOMAIN runs[r].waits :
         runs[r].failures[j] # "401" =>
         runs[r].waits[j] = IF runs[r].failures[j] = "429"
                            THEN 5000 * j
                            ELSE 1000 * 2^(j - 1)

\* a call waited after a 429 and after another failure, and failed five times
C13_Witness ==
  \E r \in DOMAIN runs :
    /\ Len(runs[r].failures) = 5 /\ Len(runs[r].waits) = 4
    /\ runs[r].failures[1] = "429" /\ runs[r].failures[2] = "500"

\* C14 (OcrSpec): when an OCR call has succeeded after k failures that were
\* all 429 answers, k < 5, it has issued k + 1 requests, the waits between
\* them never decrease, and the text it returned is published as the raw
\* text of the page.
C14_RateLimitedThenSuccess ==
  \A r \in DOMAIN runs :
    (runs[r].ocrResult = "ok" /\ \A j \in DOMAIN runs[r].failures : runs[r].failures[j] = "429")
    => /\ Len(runs[r].failures) < 5
       /\ runs[r].requests = Len(runs[r].failures) + 1
       /\ Len(runs[r].waits) = Len(runs[r].failures)
       /\ \A j \in 1..(Len(runs[r].waits) - 1) : runs[r].waits[j] <= runs[r].waits[j + 1]
       /\ \E p \in DOMAIN runs[r].log : \E j \in DOMAIN runs[r].log[p] :
            /\ runs[r].log[p][j].status = "ocr_success"
            /\ runs[r].log[p][j].rawOCR = Some(<<"a">>)

\* two 429 answers, then a success: three requests
C14_Witness ==
  \E r \in DOMAIN runs :
    /\ runs[r].ocrResult = "ok" /\ runs[r].failures = <<"429", "429">>
    /\ runs[r].requests = 3 /\ runs[r].waits = <<5000, 10000>>

\* C15 (Spec): when the OCR call of a page has failed after five failed
\* attempts, that page of the document has status error with the message of
\* the error, the document is not in status error, and the page after it,
\* if there is one, has been taken up.
C15_ExhaustedOcrIsPageFailure ==
  \A r \in DOMAIN runs : \A k \in DOMAIN files :
    (/\ runs[r].ocrResult = "error" /\ Len(runs[r].failures) = 5
     /\ files[k].id = runs[r].doc)
    => /\ files[k].status # "error"
       /\ \E p \in DOMAIN files[k].pagesData :
            /\ files[k].pagesData[p].status = "error"
            /\ files[k].pagesData[p].errorMessage = ErrorMessage(runs[r].thrown)
            /\ p + 1 < Len(runs[r].pageMap) =>
                 /\ runs[r].pc = "render"
                 /\ files[k].pagesData[p + 1].status = "pending"

\* C16 (RestoreSpec): every table part of a page gets at most 3 restoration
\* requests, counted for the part alone; a part whose 3 attempts failed is
\* resolved to its original table text, no error is published for its page,
\* and once the restoration of the page has returned without cancellation
\* the page is complete.
C16_RestorationRetriesAndFallback ==
  \A r \in DOMAIN runs : \A p \in DOMAIN runs[r].tasks :
    LET t == runs[r].tasks[p]
        parts == splitTables(t.rawContent)
        l == runs[r].log[p]
    IN /\ \A k \in DOMAIN t.segs :
            /\ t.segs[k].requests <= 3
            /\ t.segs[k].failed = 3 => (t.segs[k].pc = "done" /\ t.segs[k].out = parts[k])
       /\ (\E k \in DOMAIN t.segs : t.segs[k].failed = 3) =>
            /\ \A j \in DOMAIN l : l[j].status # "error"
            /\ (t.pc = "done" /\ ~runs[r].aborted) => l[Len(l)].status = "complete"

\* a page is complete after one of its two tables used its 3 attempts in vain
\* and the other was restored by its third request
C16_Witness ==
  \E r \in DOMAIN runs : \E p \in DOMAIN runs[r].tasks :
    LET t == runs[r].tasks[p]
        l == runs[r].log[p]
    IN /\ t.pc = "done" /\ l[Len(l)].status = "complete"
       /\ \E j, k \in DOMAIN t.segs :
            /\ t.segs[j].failed = 3 /\ t.segs[j].requests = 3
            /\ t.segs[k].failed = 2 /\ t.segs[k].requests = 3 /\ t.segs[k].pc = "done"

\* C17 (RestoreSpec): the restored text of a page completed by restoration is
\* the concatenation, in the order of the segments, of every plain segment
\* as it was and of the resolved output of every table segment (the segments
\* at the even positions of the split).
C17_RestoredIsConcatenation ==
  \A r \in DOMAIN runs : \A p \in DOMAIN runs[r].tasks : \A k \in DOMAIN files :
    LET t == runs[r].tasks[p]
        parts == splitTables(t.rawContent)
        l == runs[r].log[p]
    IN (/\ files[k].id = runs[r].doc
        /\ t.segs # <<>> /\ t.pc = "done" /\ l[Len(l)].status = "complete")
       => files[k].pagesData[p].restored =
            Some(ConcatAll([j \in DOMAIN parts |->
                              IF j % 2 = 0 THEN t.segs[j].out ELSE parts[j]]))

\* C18 (RestoreSpec): for a page completed by restoration, hasTable is true
\* exactly when the resolved output of one of the parts handled as tables
\* contains a table, be the output the answer of the model or the retained
\* original table.
C18_HasTableIffSegmentKept ==
  \A r \in DOMAIN runs : \A p \in DOMAIN runs[r].tasks : \A k \in DOMAIN files :
    LET t == runs[r].tasks[p]
        parts == splitTables(t.rawContent)
        l == runs[r].log[p]
    IN (/\ files[k].id = runs[r].doc
        /\ t.segs # <<>> /\ t.pc = "done" /\ l[Len(l)].status = "complete")
       => /\ files[k].pagesData[p].verificationResult # None
          /\ \A v \in files[k].pagesData[p].verificationResult :
               v.hasTable <=> \E j \in DOMAIN t.segs :
                                /\ startsWithTable(parts[j])
                                /\ outputHasTable(t.segs[j].out)

\* C19 (Spec): a page whose raw OCR text holds no table pattern is complete
\* as soon as the text is published, with hasTable false, and no restoration
\* is started for it, so that no restoration request is issued.
C19_NoTableNoRestoration ==
  \A r \in DOMAIN runs : \A p \in DOMAIN runs[r].log :
    LET l == runs[r].log[p]
    IN \A j \in DOMAIN l : \A text \in l[j].rawOCR :
         ~hasTableTag(text)
         => /\ Len(l) = j + 1 /\ l[j + 1].status = "complete"
            /\ p \notin DOMAIN runs[r].tasks
            /\ \A k \in DOMAIN files :
                 files[k].id = runs[r].doc
                 => /\ files[k].pagesData[p].status = "complete"
                    /\ files[k].pagesData[p].verificationResult # None
                    /\ \A v \in files[k].pagesData[p].verificationResult : ~v.hasTable

\* a page without a table is complete beside a page of the same document
\* whose table went to restoration
C19_Witness ==
  \E r \in DOMAIN runs : \E p \in DOMAIN runs[r].log : \E k \in DOMAIN files :
    LET l == runs[r].log[p]
    IN /\ files[k].id = runs[r].doc
       /\ files[k].pagesData[p].status = "complete"
       /\ \E j \in DOMAIN l : \E text \in l[j].rawOCR : ~hasTableTag(text)
       /\ p \notin DOMAIN runs[r].tasks
       /\ \E q \in DOMAIN runs[r].tasks :
            \E n \in DOMAIN runs[r].tasks[q].segs : runs[r].tasks[q].segs[n].requests > 0

\* C20 (Spec): a page whose raw OCR text splits into no table segment never
\* gets the status restoring, and its restored field is empty when the page
\* is complete.
C20_NoSegmentNoRestoration ==
  \A r \in DOMAIN runs : \A p \in DOMAIN runs[r].log :
    LET l == runs[r].log[p]
    IN \A j \in DOMAIN l : \A text \in l[j].rawOCR :
         Len(splitTables(text)) <= 1
         => /\ \A n \in DOMAIN l : l[n].status # "restoring"
            /\ \A k \in DOMAIN files :
                 (files[k].id = runs[r].doc /\ files[k].pagesData[p].status = "complete")
                 => files[k].pagesData[p].restored = None

\* C21 (RestoreSpec): the parts into which the text of a restoration is split
\* give the text back when they are concatenated in order, and a text
\* without a complete table block is its own single part.
C21_SplitIsLossless ==
  \A r \in DOMAIN runs : \A p \in DOMAIN runs[r].tasks :
    LET text == runs[r].tasks[p].rawContent
        parts == splitTables(text)
        hasBlock == \E o, c \in DOMAIN text :
                      o < c /\ text[o] = TableOpen /\ text[c] = TableClose
    IN /\ ConcatAll(parts) = text
       /\ ~hasBlock => parts = <<text>>
       /\ runs[r].tasks[p].segs # <<>> => Len(runs[r].tasks[p].segs) = Len(parts)

\* the text a <table>x</table> b <table>y</table> c is held by a restoration
\* in its five parts
C21_Witness ==
  \E r \in DOMAIN runs : \E p \in DOMAIN runs[r].tasks :
    LET t == runs[r].tasks[p]
    IN /\ Len(t.segs) = 5
       /\ [k \in DOMAIN t.segs |-> t.segs[k].out] =
            <<<<"a">>, <<TableOpen, "x", TableClose>>, <<"b">>,
              <<TableOpen, "y", TableClose>>, <<"c">>>>

\* C22 (RestoreSpec): a part is sent to the restoration model exactly when it
\* is a span matched by the table pattern (an even position of the split);
\* every other part keeps its text.
C22_OnlyMatchedSpansAreSent ==
  \A r \in DOMAIN runs : \A p \in DOMAIN runs[r].tasks :
    LET t == runs[r].tasks[p]
        parts == splitTables(t.rawContent)
    IN \A k \in DOMAIN t.segs :
         /\ (t.segs[k].pc # "plain") <=> (k % 2 = 0)
         /\ k % 2 = 1 => (t.segs[k].requests = 0 /\ t.segs[k].out = parts[k])

\* C23 (ParseSpec): the page map parsePageRange returned for a document of N
\* pages is strictly ascending and all its elements are integers in 1..N.
C23_PageMapAscendingIntegers ==
  \A k \in DOMAIN files : \A r \in DOMAIN runs :
    (/\ runs[r].doc = files[k].id /\ files[k].type = "pdf"
     /\ runs[r].pc \notin {"pf_load", "parse_loop"})
    => LET pageMap == files[k].pageMap
       IN \A j \in DOMAIN pageMap :
            /\ pageMap[j] % Scale = 0
            /\ pageMap[j] \div Scale \in 1..files[k].numPages
            /\ j > 1 => pageMap[j - 1] < pageMap[j]

\* C24 (ParseSpec): for an expression that selects no page in 1..N,
\* parsePageRange returns, and returns the full range 1..N.
C24_EmptySelectionIsFullRange ==
  \A k \in DOMAIN files : \A r \in DOMAIN runs :
    LET parts == split(files[k].pageRange, {",", ";"})
        selected == UNION {PartPages(parts[j], files[k].numPages) : j \in DOMAIN parts}
    IN (/\ runs[r].doc = files[k].id /\ files[k].type = "pdf"
        /\ runs[r].pc # "pf_load"
        /\ (selected = {} \/ files[k].pageRange \in {<<>>, <<"a", "l", "l">>}))
       => /\ runs[r].pc # "parse_loop"
          /\ files[k].pageMap = [j \in 1..files[k].numPages |-> j * Scale]

\* C25 (ParseSpec): for an expression of digits, blanks, "-" and separators
\* whose tokens hold at most one "-", the page map is made of: the pages
\* a..b within 1..N for a token a-b with numeric a <= b, nothing for a
\* reversed range or a range with a missing or non-numeric bound, the page p
\* for a numeric token p within 1..N; and of the full range when they are none.
C25_TokenContributions ==
  \A k \in DOMAIN files : \A r \in DOMAIN runs :
    LET expr == files[k].pageRange
        N == files[k].numPages
        parts == split(expr, {",", ";"})
        numeric(s) == trim(s) # <<>> /\ \A j \in DOMAIN trim(s) : IsDigit(trim(s)[j])
        dashes(s) == Cardinality({j \in DOMAIN s : s[j] = "-"})
        claimed(part) ==
          IF dashes(part) = 1
          THEN LET ab == split(trim(part), {"-"})
               IN IF numeric(ab[1]) /\ numeric(ab[2])
                  THEN {p \in 1..N : DecimalValue(trim(ab[1])) <= p /\ p <= DecimalValue(trim(ab[2]))}
                  ELSE {}
          ELSE IF numeric(part) /\ DecimalValue(trim(part)) \in 1..N
          THEN {DecimalValue(trim(part))}
          ELSE {}
        pages == UNION {claimed(parts[j]) : j \in DOMAIN parts}
    IN (/\ runs[r].doc = files[k].id /\ files[k].type = "pdf"
        /\ runs[r].pc \notin {"pf_load", "parse_loop"}
        /\ Range(expr) \subseteq {"1", "3", "-", ",", ";", " "}
        /\ \A j \in DOMAIN parts : dashes(parts[j]) <= 1)
       => files[k].pageMap =
            [j \in 1..Cardinality(IF pages = {} THEN 1..N ELSE pages) |->
               Scale * SortedSeq(IF pages = {} THEN 1..N ELSE pages)[j]]

\* C26 (EditSpec): whenever the text of a document is recomputed (by a page
\* update, a toggle of the view mode or a retry of a page), it is the chunks
\* of its pages in the order of their indices, joined by the page separator,
\* where the chunk of every page, whatever its status, is its restored text
\* if it has one and else its rawOCR in the restored view, and its rawOCR in
\* the raw view.
C26_ChunksWhateverStatus ==
  [][\A k \in DOMAIN files \cap DOMAIN files' :
       LET f == files'[k]
           recomputed ==
             \/ f.viewMode # files[k].viewMode
             \/ \E r \in DOMAIN runs \cap DOMAIN runs' :
                  runs[r].doc = f.id /\ runs'[r].log # runs[r].log
             \/ \E t \in retrying \ retrying' : t.doc = f.id /\ f # files[k]
           keys == SortedSeq(DOMAIN f.pagesData)
           chunk(i) ==
             IF f.viewMode # "raw" /\ f.pagesData[i].restored \notin {None, Some(<<>>)}
             THEN CHOOSE text \in f.pagesData[i].restored : TRUE
             ELSE f.pagesData[i].rawOCR
       IN (files[k].id = f.id /\ recomputed /\ DOMAIN f.pagesData # {})
          => f.content = Join([n \in DOMAIN keys |-> chunk(keys[n])],
                              <<BlankLine, SPLIT_MARKER, BlankLine>>)]_vars

\* C26, amended (EditSpec): whenever the text of a document is recomputed, it
\* is the chunks of the indices 0..n-1, n the number of its page records,
\* joined by the page separator; the chunk of an index without a record is
\* empty, the chunk of a page in status error is the error notice with its
\* page number and error message, and the chunk of any other page is its
\* non-empty restored text, else its rawOCR, in the restored view and its
\* rawOCR in the raw view.
C26_ChunksExceptErrorPages ==
  [][\A k \in DOMAIN files \cap DOMAIN files' :
       LET f == files'[k]
           recomputed ==
             \/ f.viewMode # files[k].viewMode
             \/ \E r \in DOMAIN runs \cap DOMAIN runs' :
                  runs[r].doc = f.id /\ runs'[r].log # runs[r].log
             \/ \E t \in retrying \ retrying' : t.doc = f.id /\ f # files[k]
           n == Cardinality(DOMAIN f.pagesData)
           chunk(i) ==
             IF i \notin DOMAIN f.pagesData THEN <<>>
             ELSE IF f.pagesData[i].status = "error"
             THEN <<"> Page", ToString(i + 1), "Error:", f.pagesData[i].errorMessage>>
             ELSE IF f.viewMode # "raw" /\ f.pagesData[i].restored \notin {None, Some(<<>>)}
             THEN CHOOSE text \in f.pagesData[i].restored : TRUE
             ELSE f.pagesData[i].rawOCR
       IN (files[k].id = f.id /\ recomputed /\ DOMAIN f.pagesData # {})
          => f.content = Join([j \in 1..n |-> chunk(j - 1)],
                              <<BlankLine, SPLIT_MARKER, BlankLine>>)]_vars

\* the text of a document in the raw view is the error notice of its first
\* page, the separator and the raw text of its restored second page
C26_Witness ==
  \E k \in DOMAIN files :
    /\ files[k].type = "pdf" /\ files[k].viewMode = "raw"
    /\ DOMAIN files[k].pagesData = {0, 1}
    /\ files[k].pagesData[0].status = "error"
    /\ files[k].pagesData[1].restored = Some(<<"x">>)
    /\ files[k].content =
         <<"> Page", "1", "Error:", files[k].pagesData[0].errorMessage,
           BlankLine, SPLIT_MARKER, BlankLine, TableOpen, "x", TableClose>>

\* C27 (EditSpec): after every step that changes the pages or the view mode
\* of a processed document (page update, retry of a page, toggle of the view
\* mode, change typed into the editor) its content is reconstructContent of
\* its pages and view mode.
C27_ContentIsDerived ==
  [][\A k \in DOMAIN files \cap DOMAIN files' :
       (/\ files[k].id = files'[k].id /\ files[k].type # "none"
        /\ files'[k].pageMap = files[k].pageMap
        /\ \/ files'[k].pagesData # files[k].pagesData
           \/ files'[k].viewMode # files[k].viewMode)
       => files'[k].content = reconstructContent(files'[k])]_vars

\* C28 (EditSpec): the keys of the pages of an uploaded document that is
\* processing, completed or failed are exactly 0 .. pageMap.length - 1.
C28_PageKeysMatchPageMap ==
  \A k \in DOMAIN files :
    (files[k].type # "none" /\ files[k].status \in {"processing", "completed", "error"})
    => DOMAIN files[k].pagesData = 0..(Len(files[k].pageMap) - 1)

\* a retry of a page is sent with the instruction chosen in the dialog; the
\* step in which it returns puts in place of the record of the page the
\* record of the new text (restored null, status ocr_success, no
\* verificationResult), changes no other page and starts no restoration
RetryReplacesPage ==
  [][/\ \A t \in retrying : t.prompt = t.retryPrompt
     /\ \A t \in retrying \ retrying' : \A k \in DOMAIN files \cap DOMAIN files' :
          (files[k].id = t.doc /\ files'[k].id = t.doc /\ files'[k] # files[k])
          => /\ DOMAIN files'[k].pagesData =
                  DOMAIN files[k].pagesData \cup {t.logicalPageIndex}
             /\ \A q \in DOMAIN files[k].pagesData \ {t.logicalPageIndex} :
                  files'[k].pagesData[q] = files[k].pagesData[q]
             /\ \E c \in RetryTexts :
                  files'[k].pagesData[t.logicalPageIndex] =
                    [rawOCR |-> stripFences(c), restored |-> None,
                     status |-> "ocr_success", verificationResult |-> None,
                     errorMessage |-> "undefined"]
             /\ \A r \in DOMAIN runs \cap DOMAIN runs' : runs'[r].tasks = runs[r].tasks]_vars

\* a page whose raw text is the text of a retry (no other writer produces
\* that text) is in status ocr_success
RetriedPageStaysAtOcrSuccess ==
  \A k \in DOMAIN files : \A p \in DOMAIN files[k].pagesData :
    files[k].pagesData[p].rawOCR \in {stripFences(c) : c \in RetryTexts}
    => files[k].pagesData[p].status = "ocr_success"

\* C29 (EditSpec): a successful retry of a page, sent with the instruction
\* chosen in the dialog, replaces the record of the page by the record of
\* the new text (restored null, status ocr_success, no verificationResult),
\* changes no other page and starts no restoration, and the page stays in
\* status ocr_success from then on.
C29_ManualRetryReplacesPage ==
  RetryReplacesPage /\ []RetriedPageStaysAtOcrSuccess

\* C30 (EditSpec): the step in which the restoration of a page ends does not
\* change the record of the page when the raw text of the page is no longer
\* the text the restoration was started with (the page was retried or changed
\* in the editor meanwhile).
C30_RestorationKeepsRetriedPage ==
  [][\A r \in DOMAIN runs \cap DOMAIN runs' : \A p \in DOMAIN runs[r].tasks :
       \A k \in DOMAIN files \cap DOMAIN files' :
         (/\ files[k].id = runs[r].doc /\ files'[k].id = runs[r].doc
          /\ p \in DOMAIN runs'[r].tasks
          /\ runs[r].tasks[p].pc # "done" /\ runs'[r].tasks[p].pc = "done"
          /\ p \in DOMAIN files[k].pagesData
          /\ files[k].pagesData[p].rawOCR # runs[r].tasks[p].rawContent)
         => files'[k].pagesData[p] = files[k].pagesData[p]]_vars

\* C31 (SchedSpec): the status of a document changes only along
\* waiting_config -> queued, queued -> processing, processing -> completed,
\* processing -> error and error -> queued.  A document is admitted (a run is
\* started for it) only when it is queued: it was queued before the task, or
\* the handler of the task queued it (the page range was confirmed, the full
\* retry was asked) and the queue effect admitted it in the same task; a
\* document in waiting_config or completed is never admitted.
C31_DocumentStatusEdges ==
  [][\A k \in DOMAIN files : \A j \in DOMAIN files' :
       files[k].id = files'[j].id =>
         LET s == files[k].status
             t == files'[j].status
             d == files[k].id
             admitted == \E r \in DOMAIN runs' \ DOMAIN runs : runs'[r].doc = d
             queuedByHandler ==
               \/ s = "waiting_config" /\ showPageSelector /\ ~showPageSelector'
                    /\ pendingFileId = d
               \/ s = "error" /\ retried' = retried + 1
         IN IF admitted
            THEN /\ s = "queued" \/ queuedByHandler
                 /\ t \in {"processing", "completed", "error"}
            ELSE \/ s = t
                 \/ <<s, t>> \in {<<"waiting_config", "queued">>,
                                  <<"processing", "completed">>,
                                  <<"processing", "error">>,
                                  <<"error", "queued">>}]_vars

\* the only uploaded document, a PDF, went from waiting_config through queued
\* and processing to error, was retried and is completed
C31_Witness ==
  /\ nextId = 2 /\ retried = 1
  /\ \E k \in DOMAIN files :
       files[k].id = 1 /\ files[k].type = "pdf" /\ files[k].status = "completed"

\* C32 (FatalSpec): when processDocument starts for a document without a
\* stored key or of a type that is neither PDF nor image, the run ends in
\* that very step: it has issued no OCR request, started no restoration and
\* published no page update, and the document is in status error; a run that
\* ended so issues nothing later; and a document in status error leaves it
\* only by the full retry asked by the user.
C32_FatalHaltsDocument ==
  [][/\ \A r \in DOMAIN runs' :
          LET entersProcessDocument ==
                \/ r \notin DOMAIN runs /\ runs'[r].type # "pdf"
                \/ r \in DOMAIN runs /\ runs[r].pc = "pf_load" /\ runs'[r].pc # "pf_load"
              fatal == ~apiKey \/ runs'[r].type \notin {"pdf", "image"}
          IN (entersProcessDocument /\ fatal)
             => /\ runs'[r].pc = "done"
                /\ runs'[r].requests = 0 /\ runs'[r].tasks = <<>> /\ runs'[r].log = <<>>
                /\ \A k \in DOMAIN files' :
                     files'[k].id = runs'[r].doc => files'[k].status = "error"
     /\ \A r \in DOMAIN runs \cap DOMAIN runs' :
          (runs[r].pc = "done" /\ runs[r].log = <<>>)
          => runs'[r].requests = 0 /\ runs'[r].tasks = <<>> /\ runs'[r].log = <<>>
     /\ \A k \in DOMAIN files : \A j \in DOMAIN files' :
          (files[k].id = files'[j].id /\ files[k].status = "error"
             /\ files'[j].status # "error")
          => retried' = retried + 1]_vars

\* two documents are in status error with no page beyond pending: a PDF that
\* was started while no key was stored, and a file of another type
C32_Witness ==
  /\ retried = 0
  /\ \E k, j \in DOMAIN files :
       /\ files[k].type = "pdf" /\ files[k].status = "error"
       /\ DOMAIN files[k].pagesData = {0} /\ files[k].pagesData[0].status = "pending"
       /\ files[j].type = "other" /\ files[j].status = "error"
       /\ DOMAIN files[j].pagesData = {0} /\ files[j].pagesData[0].status = "pending"

\* C33 (SchedSpec): every blob URL that is not released belongs to a document
\* of the list: when a document that holds a blob URL leaves the list (by the
\* delete action or by the cancel button of the page-range dialog) its URL
\* is released in that step.
C33_RemovedDocumentsHoldNoUrl ==
  \A u \in objectUrls : \E k \in DOMAIN files : u \in files[k].pdfUrl

\* the text holds a <|det|>...<|/det|> span or a box / quad marker
HasCoordinateMarker(text) ==
  \/ \E i \in DOMAIN text : text[i] \in {BoxOpen, BoxClose, QuadOpen, QuadClose}
  \/ \E i, j \in DOMAIN text : i < j /\ text[i] = DetOpen /\ text[j] = DetClose

\* the text begins or ends with a code fence
HasFenceWrapper(text) ==
  text # <<>> /\ (Head(text) \in {Fence, FenceMarkdown} \/ text[Len(text)] = Fence)

\* C34 (NoiseSpec): the text the OCR caller returned, kept as the rawOCR of a
\* page, holds no <|det|>...<|/det|> span, no <|box|> or <|quad|> marker and
\* no code fence at its beginning or its end.
C34_RawOcrHasNoMarkers ==
  \A k \in DOMAIN files : \A p \in DOMAIN files[k].pagesData :
    files[k].type # "none"
    => /\ ~HasCoordinateMarker(files[k].pagesData[p].rawOCR)
       /\ ~HasFenceWrapper(files[k].pagesData[p].rawOCR)

\* the reading of a text by the rules of quoted CSV: a field that begins with
\* a quote runs to the next quote that is not doubled, and a doubled quote in
\* it stands for one quote; outside quotes a comma ends the field and CR LF
\* (or LF) ends the record.  st is [i, inQuotes, field, row, rows].
RECURSIVE CsvRead(_, _)
CsvRead(text, st) ==
  LET i == st.i
      endField == [st EXCEPT !.i = i + 1, !.field = <<>>, !.row = Append(@, st.field)]
      endRecord(n) == [st EXCEPT !.i = i + n, !.field = <<>>, !.row = <<>>,
                                 !.rows = Append(@, Append(st.row, st.field))]
  IN IF i > Len(text) THEN Append(st.rows, Append(st.row, st.field))
     ELSE IF st.inQuotes
     THEN IF text[i] # Quote
          THEN CsvRead(text, [st EXCEPT !.i = i + 1, !.field = Append(@, text[i])])
          ELSE IF i < Len(text) /\ text[i + 1] = Quote
          THEN CsvRead(text, [st EXCEPT !.i = i + 2, !.field = Append(@, Quote)])
          ELSE CsvRead(text, [st EXCEPT !.i = i + 1, !.inQuotes = FALSE])
     ELSE IF text[i] = Quote /\ st.field = <<>>
     THEN CsvRead(text, [st EXCEPT !.i = i + 1, !.inQuotes = TRUE])
     ELSE IF text[i] = Comma THEN CsvRead(text, endField)
     ELSE IF text[i] = CR /\ i < Len(text) /\ text[i + 1] = LF
     THEN CsvRead(text, endRecord(2))
     ELSE IF text[i] = LF THEN CsvRead(text, endRecord(1))
     ELSE CsvRead(text, [st EXCEPT !.i = i + 1, !.field = Append(@, text[i])])

ParseCsv(text) ==
  CsvRead(text, [i |-> 1, inQuotes |-> FALSE, field |-> <<>>, row |-> <<>>, rows |-> <<>>])

\* the records a reader of the exported file must find
ExpectedRecords(rows) ==
  <<EVAL_CSV_HEADER_CN, EVAL_CSV_HEADER_TYPES>>
  \o [k \in DOMAIN rows |-> <<rows[k].name, rows[k].ocr_text, rows[k].pdf_img>>]

\* the text of three fields wrapped in quotes, the quotes inside doubled
QuotedRecord(record) ==
  Join([k \in DOMAIN record |-> <<Quote>> \o DoubleQuotes(record[k]) \o <<Quote>>],
       <<Comma>>)

\* C35 (CsvSpec): the exported text is, for the two header records and every
\* row of the evaluation set, one line of three fields wrapped in double
\* quotes with the quotes inside doubled, the lines separated by CR LF; and
\* a reader of quoted CSV finds in it the header records and, for every row,
\* the three values of the row, whatever quotes, commas and line ends they
\* hold.
C35_CsvRoundTrip ==
  [][download' # download
     => \E csv \in download' :
          LET records == ExpectedRecords(evalDatasetRows)
          IN /\ csv = Join([k \in DOMAIN records |-> QuotedRecord(records[k])], <<CR, LF>>)
             /\ ParseCsv(csv) = records]_vars

\* a set of two rows was exported whose texts hold a quote and a comma, and
\* CR LF; the reader finds the rows in the exported text
C35_Witness ==
  /\ Len(evalDatasetRows) = 2
  /\ evalDatasetRows[1].ocr_text = <<Quote, Comma>>
  /\ evalDatasetRows[2].ocr_text = <<CR, LF>>
  /\ evalDatasetRows[2].pdf_img = <<Quote, "i", Comma>>
  /\ \E csv \in download : ParseCsv(csv) = ExpectedRecords(evalDatasetRows)

\* C36 (Spec): a run of a PDF has one OCR call at a time, the call of the
\* page at its loop index i; while that call is under way every page before
\* i has had the end of its own OCR call published (ocr_success or error)
\* and nothing but pending has been published for the pages from i on; the
\* restoration tasks of the pages before i need not have ended.
C36_OcrCallsInPageOrder ==
  \A r \in DOMAIN runs :
    (runs[r].type = "pdf" /\ InOcrCall(runs[r]))
    => /\ runs[r].i \in 0..(Len(runs[r].pageMap) - 1)
       /\ \A p \in 0..(runs[r].i - 1) :
            /\ p \in DOMAIN runs[r].log
            /\ \E n \in DOMAIN runs[r].log[p] :
                 runs[r].log[p][n].status \in {"ocr_success", "error"}
       /\ \A p \in DOMAIN runs[r].log :
            p >= runs[r].i
            => \A n \in DOMAIN runs[r].log[p] : runs[r].log[p][n].status = "pending"

\* the OCR request of the second page is under way while the restoration
\* task of the first page has not ended
C36_Witness ==
  \E r \in DOMAIN runs :
    /\ runs[r].type = "pdf" /\ runs[r].pc = "ocr_fetch" /\ runs[r].i = 1
    /\ 0 \in DOMAIN runs[r].tasks /\ runs[r].tasks[0].pc \in {"delay", "segs"}

\* C37 (Spec): in every step of a run whose cancellation token was triggered
\* before the step: no restoration request is issued for any segment of any
\* page; a restoration call that is under way has a segment whose request or
\* wait is pending, and when the call ends it ends by the abort (a segment
\* threw, nothing is published for the page); and no page of the document is
\* set to status error.
C37_RestorationCancellation ==
  [][\A r \in DOMAIN runs \cap DOMAIN runs' :
       runs[r].aborted
       => /\ \A p \in DOMAIN runs'[r].tasks : \A k \in DOMAIN runs'[r].tasks[p].segs :
               runs'[r].tasks[p].segs[k].requests =
                 IF p \in DOMAIN runs[r].tasks /\ k \in DOMAIN runs[r].tasks[p].segs
                 THEN runs[r].tasks[p].segs[k].requests ELSE 0
          /\ \A p \in DOMAIN runs[r].tasks :
               runs[r].tasks[p].pc = "segs"
               => /\ \E k \in DOMAIN runs[r].tasks[p].segs :
                       runs[r].tasks[p].segs[k].pc \in {"fetch", "backoff"}
                  /\ runs'[r].tasks[p].pc # "segs"
                     => /\ runs'[r].tasks[p].pc = "done"
                        /\ \E k \in DOMAIN runs'[r].tasks[p].segs :
                             runs'[r].tasks[p].segs[k].pc = "thrown"
                        /\ (p \in DOMAIN runs[r].log => runs'[r].log[p] = runs[r].log[p])
          /\ \A k \in DOMAIN files : \A j \in DOMAIN files' :
               (files[k].id = runs[r].doc /\ files'[j].id = runs[r].doc)
               => \A p \in DOMAIN files'[j].pagesData :
                    files'[j].pagesData[p].status = "error"
                    => (p \in DOMAIN files[k].pagesData
                        /\ files[k].pagesData[p] = files'[j].pagesData[p])]_vars

\* the run was stopped while a restoration request was under way: the call
\* ended by the abort, one request was issued, the page is not in error
C37_Witness ==
  \E r \in DOMAIN runs : \E p \in DOMAIN runs[r].tasks :
    /\ runs[r].aborted /\ runs[r].type = "pdf" /\ runs[r].tasks[p].pc = "done"
    /\ \E k \in DOMAIN runs[r].tasks[p].segs :
         runs[r].tasks[p].segs[k].pc = "thrown" /\ runs[r].tasks[p].segs[k].requests = 1
    /\ \A k \in DOMAIN files :
         files[k].id = runs[r].doc
         => p \in DOMAIN files[k].pagesData /\ files[k].pagesData[p].status = "restoring"

\* C38 (Spec): a run whose cancellation token was triggered before a step
\* publishes no page update in that step; hence no page of its document is
\* moved to ocr_success or restoring after the cancellation, and no page
\* shows restoring once the run has ended.
C38_NoPublicationAfterCancel ==
  [][\A r \in DOMAIN runs \cap DOMAIN runs' :
       runs[r].aborted
       => /\ runs'[r].log = runs[r].log
          /\ Finished(runs'[r])
             => \A k \in DOMAIN files' :
                  files'[k].id = runs'[r].doc
                  => \A p \in DOMAIN files'[k].pagesData :
                       files'[k].pagesData[p].status # "restoring"]_vars

\* C39 (SchedSpec): at most one run has work left on the event loop, and the
\* cancellation handle of the application refers to that run unless its
\* token was already triggered.
C39_OneRunHoldsTheHandle ==
  /\ Cardinality({r \in DOMAIN runs : ~Finished(runs[r])}) <= 1
  /\ \A r \in DOMAIN runs :
       (~Finished(runs[r]) /\ ~runs[r].aborted) => abortControllerRef = r

-----------------------------------------------------------------------------
(* Termination: one uploaded document, every answer of the two models, and *)
(* every settled promise or timer gets its continuation run.               *)

\* the page-range expressions typed in the dialog, one of them with an
\* unbounded end
TerminationRanges == PageRangeInputs \cup {<<"1", "-">> \o InfinityLiteral}

\* a continuation that is ready: the request, render or timer it waits for has
\* settled (geminiService.ts:148-204, 250-337, 405-571; App.tsx:286-363); the
\* rejections are named first and are steps of Pipeline as well
ReadyContinuation ==
  \/ \E r \in RunIds : PdfLoadFailed(r)
  \/ \E r \in RunIds : RenderFailed(r)
  \/ \E r \in RunIds, e \in OcrErrors : OcrFails(r, e)
  \/ \E r \in RunIds, p \in PageIdx, k \in PartIdx, e \in RestoreErrors :
        SegFails(r, p, k, e)
  \/ \E r \in RunIds : PfParseLoops(r)
  \/ Pipeline(OcrTexts, OcrErrors, RestoreTexts, RestoreErrors)

\* while a loop keeps the thread no handler and no continuation runs
TerminationNext ==
  \/ ~ThreadBlocked /\ \E f \in {PdfFile(MaxPages), ImageFile} : handleFileUpload(<<f>>, 1)
  \/ ~ThreadBlocked /\ \E in \in TerminationRanges : confirmPageRange(in)
  \/ ~ThreadBlocked /\ deleteFile(1)
  \/ ~ThreadBlocked /\ handleStopProcessing
  \/ ~ThreadBlocked /\ Pipeline(OcrTexts, OcrErrors, RestoreTexts, RestoreErrors)
  \/ \E r \in RunIds : PfParseLoops(r)

\* every request, render and timer settles, and the event loop runs the
\* continuation of whatever has settled
TerminationSpec ==
  Init /\ [][TerminationNext]_vars /\ WF_vars(~ThreadBlocked /\ ReadyContinuation)

\* the uploaded document is in the list with the given status
DocumentIn(id, statuses) ==
  \E k \in DOMAIN files : files[k].id = id /\ files[k].status \in statuses

\* the uploaded document is no longer in the list
DocumentRemoved(id) == \A k \in DOMAIN files : files[k].id # id

\* C40 (TerminationSpec): a page is sent to the OCR model at most OCR_RETRIES
\* times and a table segment to the restoration model at most RESTORE_RETRIES
\* times, and a document that is processing is eventually completed or in
\* error, unless the user removes it from the list.
C40_AdmittedDocumentsFinish ==
  /\ [](\A r \in DOMAIN runs :
          /\ runs[r].attempt < OCR_RETRIES
          /\ \A p \in DOMAIN runs[r].tasks : \A k \in DOMAIN runs[r].tasks[p].segs :
               runs[r].tasks[p].segs[k].attempt < RESTORE_RETRIES)
  /\ DocumentIn(1, {"processing"})
       ~> (DocumentIn(1, {"completed", "error"}) \/ DocumentRemoved(1))

====
